---------------------------- MODULE Spec2Model ----------------------------
(***************************************************************************)
(* go-filemanager: the pipeline engine (FileManager.ProcessFile), the      *)
(* status log (FileProcess), the upload adapter (HandleFileUpload and      *)
(* ProgressReader.Read) and the status channel between the producer task   *)
(* and the consumer loop of the README.                                    *)
(*                                                                         *)
(* Strings that the code inspects character by character (mime types) are  *)
(* sequences of one-character strings.  A Go error is a record             *)
(* [fmt, arg]; the nil error is NilError.  A nil pointer to a status is    *)
(* the empty sequence, a non-nil one a sequence of length 1.               *)
(***************************************************************************)
EXTENDS Integers, Sequences, FiniteSets, TLC

(***************************************************************************)
(* Bounds of the model.                                                    *)
(***************************************************************************)
MaxSteps == 2
MaxOutputs == 2
MaxFiles == 2
MaxChanCap == 1
MaxUploadSize == 2
MaxFileSizeIn == 3

VARIABLES
    recipes,            \* fm.recipes: recipe name -> Recipe
    processingPlugins,  \* fm.processingPlugins: the registered plugin names
    recipeName,         \* argument of ProcessFile
    file,               \* argument of ProcessFile: the *ManagedFile
    upload,             \* the io.Reader handed to HandleFileUpload, or none
    statusCh,           \* the channel: [cap, buf, closed]
    pc,                 \* position of the producer task
    sending,            \* the producer is at a `statusCh <- fileProcess`
    recipe,             \* ProcessFile's local: the recipe found
    files,              \* ProcessFile's local: the current file set
    stepIdx,            \* index of the next processing step (range loop)
    result,             \* what plugin.Process returned: [files, err]
    outIdx,             \* <<i, j>>: next output format and target template
    outputFiles,        \* ProcessFile's local: the output files saved so far
    ProcessingUpdates,  \* fileProcess.ProcessingUpdates
    LatestStatus,       \* fileProcess.LatestStatus (pointer to a copy)
    progressReader,     \* the ProgressReader of HandleFileUpload
    storage,            \* the files written by Save, in order
    cpc,                \* position of the consumer loop
    seen,               \* what the consumer read on each received message
    hist,               \* history: sends, plugin calls (with what each
                        \* received and returned), checks made
    publicLocalBasePath, \* fm.publicLocalBasePath, as given to NewFileManager
    mu,                 \* fm.mu, the RWMutex: [writer, readers]
    rpc,                \* position of a task calling AddProcessingPlugin
    other,              \* position of a second ProcessFile run on fm
    disk,               \* the file system: local path -> content
    single,             \* a call of RunProcessingStep: its arguments, its
                        \* locals, its own FileProcess and what it returned
    naming,             \* the naming of one output file: template, file,
                        \* resolved name and target path
    urlCall             \* a call of GetPublicUrlForFile: its argument and
                        \* what it returned

vars == <<recipes, processingPlugins, recipeName, file, upload, statusCh, pc,
          sending, recipe, files, stepIdx, result, outIdx, outputFiles,
          ProcessingUpdates, LatestStatus, progressReader, storage, cpc, seen,
          hist, publicLocalBasePath, mu, rpc, other, disk, single,
          naming, urlCall>>

\* what the tasks of one run (producer, channel, consumer) never change
envVars == <<publicLocalBasePath, mu, rpc, other, single, naming, urlCall>>

(***************************************************************************)
(* Strings and errors.                                                     *)
(***************************************************************************)
LowerChar(c) ==
    CASE c = "I" -> "i"
      [] c = "M" -> "m"
      [] c = "G" -> "g"
      [] c = "P" -> "p"
      [] OTHER -> c

ToLower(s) == [i \in DOMAIN s |-> LowerChar(s[i])]

HasPrefix(s, prefix) ==
    /\ Len(prefix) <= Len(s)
    /\ SubSeq(s, 1, Len(prefix)) = prefix

NilError == [fmt |-> "nil", arg |-> ""]

Errorf(f, a) == [fmt |-> f, arg |-> a]

ErrRecipeNotFound == [fmt |-> "recipe not found", arg |-> ""]
ErrInvalidMimeType == [fmt |-> "invalid MIME type", arg |-> ""]
ErrInvalidFileSize == [fmt |-> "invalid file size", arg |-> ""]
ErrProcessingPluginNotFound == [fmt |-> "processing plugin not found", arg |-> ""]
ErrLocalFileNotFound == [fmt |-> "local file not found", arg |-> ""]

FileStorageTypePrivate == "private"
FileStorageTypeTemp == "temp"
FileStorageTypePublic == "public"

(***************************************************************************)
(* ProcessingStatus and the FileProcess log.                               *)
(***************************************************************************)
ProcessingStatus(name, pct, err, done, resFiles) ==
    [ProcessorName |-> name, Percentage |-> pct, Error |-> err,
     Done |-> done, ResultingFiles |-> resFiles]

\* faulty variant: the update takes the place of the last entry
AppendUpdateOverwrite(updates, update) ==
    IF updates = <<>> THEN <<update>>
    ELSE [updates EXCEPT ![Len(updates)] = update]

\* fp.ProcessingUpdates = append(fp.ProcessingUpdates, update)
AppendUpdate(updates, update) == Append(updates, update)

\* fp.LatestStatus = &update: the address of the parameter, a copy
\* faulty variant: the copy kept as latest status is never marked done
LatestOfNotDone(update) == <<[update EXCEPT !.Done = FALSE]>>

LatestOf(update) == <<update>>

\* AddProcessingUpdate, as the pair of new field values
AddProcessingUpdate(update) ==
    /\ ProcessingUpdates' = AppendUpdate(ProcessingUpdates, update)
    /\ LatestStatus' = LatestOf(update)

(***************************************************************************)
(* isValidMimeType: the loop over the accepted entries.                    *)
(***************************************************************************)
RECURSIVE isValidMimeTypeFrom(_, _, _)
isValidMimeTypeFrom(mimeType, acceptedMimeTypes, i) ==
    IF i > Len(acceptedMimeTypes) THEN FALSE
    ELSE IF HasPrefix(ToLower(mimeType), ToLower(acceptedMimeTypes[i])) THEN TRUE
    ELSE isValidMimeTypeFrom(mimeType, acceptedMimeTypes, i + 1)

\* faulty variant: exact comparison instead of the case-insensitive prefix match
isValidMimeTypeExact(mimeType, acceptedMimeTypes) ==
    \E i \in DOMAIN acceptedMimeTypes : mimeType = acceptedMimeTypes[i]

isValidMimeType(mimeType, acceptedMimeTypes) ==
    isValidMimeTypeFrom(mimeType, acceptedMimeTypes, 1)

\* faulty variant: the bounds themselves are rejected
isInvalidFileSizeExclusive(size, r) == size <= r.MinFileSize \/ size >= r.MaxFileSize

\* file.FileSize < recipe.MinFileSize || file.FileSize > recipe.MaxFileSize
isInvalidFileSize(size, r) == size < r.MinFileSize \/ size > r.MaxFileSize


(***************************************************************************)
(* Output expansion helpers.  Target names are already resolved names      *)
(* (templates without tokens, carrying their extension); a path is the     *)
(* sequence of its segments.                                               *)
(***************************************************************************)
TypeByExtension(name) ==
    CASE name = "out.txt" -> "text/plain"
      [] name = "a.png" -> "image/png"
      [] OTHER -> ""

\* the other arguments of NewFileManager
privateLocalBasePath == <<"priv">>
localTempPath == <<"tmp">>
baseUrl == <<"cdn">>

\* path.Clean, as far as the paths of the model go: "." segments are dropped
Clean(p) == SelectSeq(p, LAMBDA segment : segment # ".")

\* path.Join(base, fileName): the elements joined, then cleaned
Join(base, fileName) == Clean(base \o <<fileName>>)

GetPrivateLocalFilePath(name) == Join(privateLocalBasePath, name)
GetLocalTemporaryFilePath(name) == Join(localTempPath, name)
GetPublicLocalFilePath(name) == Join(publicLocalBasePath, name)

\* strings.TrimPrefix(s, prefix)
TrimPrefix(s, prefix) ==
    IF HasPrefix(s, prefix) THEN SubSeq(s, Len(prefix) + 1, Len(s)) ELSE s

\* joinURL(baseURL, relativePath): a leading slash of the relative path is
\* removed and the path resolved against the base URL, which ends with a
\* slash (for the paths of the model, without "." and ".." and without
\* "//", the resolved URL is the one text after the other)
joinURL(base, relativePath) == base \o TrimPrefix(relativePath, <<"/">>)

\* the URL of a file under the public base path; for any other path the
\* empty string (and ErrLocalFileNotFound)
GetPublicUrlForFile(localFilePath) ==
    IF ~HasPrefix(localFilePath, publicLocalBasePath)
    THEN <<>>
    ELSE joinURL(baseUrl, TrimPrefix(localFilePath, publicLocalBasePath))

\* faulty variant: the switch has no default case
IsStorageTypeAny(t) == TRUE

IsStorageType(t) ==
    t \in {FileStorageTypePrivate, FileStorageTypeTemp, FileStorageTypePublic}

\* the switch on outputFormat.StorageType
LocalPathFor(t, name) ==
    CASE t = FileStorageTypePrivate -> GetPrivateLocalFilePath(name)
      [] t = FileStorageTypeTemp -> GetLocalTemporaryFilePath(name)
      [] t = FileStorageTypePublic -> GetPublicLocalFilePath(name)
      [] OTHER -> <<>>

\* outputFile.URL: derived for public storage only
OutputUrl(t, localFilePath) ==
    IF t = FileStorageTypePublic THEN GetPublicUrlForFile(localFilePath) ELSE <<>>

\* os.Create(file.LocalFilePath) and Write(file.Content)
\* faulty variant: a write leaves nothing else on the disk
WriteFileAlone(d, path, content) == (path :> content)

WriteFile(d, path, content) == (path :> content) @@ d

\* the output file after a successful Save: size and mime type recomputed
SavedOutputFile(name, t, content) ==
    [FileName |-> name,
     LocalFilePath |-> LocalPathFor(t, name),
     URL |-> OutputUrl(t, LocalPathFor(t, name)),
     FileSize |-> Len(content),
     MimeType |-> TypeByExtension(name)]

(***************************************************************************)
(* The inputs: recipes, files, upload sources, channel capacities.         *)
(***************************************************************************)
SeqsUpTo(S, n) == UNION {[1..k -> S] : k \in 0..n}

PluginNames == {"", "p", "x"}          \* "p" is registered, "x" is not

\* the name the ClamAV plugin is registered under
ScanPluginName == "ClamAV"

FileMimes == {<<"I", "m", "g">>, <<"p">>, <<>>}

AcceptedLists ==
    {<<>>, << <<"i", "m">> >>, << <<"x">>, <<"P">> >>, << <<"i", "m", "g", "s">> >>}

OutputFormatChoices ==
    {[StorageType |-> FileStorageTypePrivate, TargetFileNames |-> <<"a.png", "out.txt">>],
     [StorageType |-> FileStorageTypeTemp, TargetFileNames |-> <<"out.txt">>],
     [StorageType |-> FileStorageTypePublic, TargetFileNames |-> <<"out.txt">>],
     [StorageType |-> "bogus", TargetFileNames |-> <<"out.txt">>]}

\* the public base path as callers write it: clean, or relative with "./"
PublicBasePaths == {<<"pub">>, <<".", "pub">>}

BaseRecipe ==
    [AcceptedMimeTypes |-> << <<"i", "m">> >>,
     MinFileSize |-> 1,
     MaxFileSize |-> 2,
     ProcessingSteps |-> <<"p">>,
     OutputFormats |-> <<[StorageType |-> FileStorageTypePublic,
                          TargetFileNames |-> <<"out.txt">>]>>]

BaseScenario ==
    [recipeName |-> "r", recipe |-> BaseRecipe,
     mime |-> <<"I", "m", "g">>, size |-> 1, upload |-> <<>>,
     publicBase |-> <<"pub">>]

\* a reader that is an *os.File of n bytes (its size can be found), or any
\* other reader
UploadSources ==
    {<<[isFile |-> TRUE, total |-> n]>> : n \in 0..MaxUploadSize}
    \cup {<<[isFile |-> FALSE, total |-> MaxUploadSize]>>}

\* the validation inputs vary; one step, one output
ValidationScenarios ==
    {[BaseScenario EXCEPT !.recipeName = rn, !.mime = m, !.size = sz,
                          !.recipe.AcceptedMimeTypes = acc,
                          !.recipe.MinFileSize = mn,
                          !.recipe.MaxFileSize = mx] :
        rn \in {"r", "q"}, m \in FileMimes, sz \in 0..MaxFileSizeIn,
        acc \in AcceptedLists, mn \in 1..2, mx \in {2}}

\* the processing steps vary
StepScenarios ==
    {[BaseScenario EXCEPT !.recipe.ProcessingSteps = st] :
        st \in SeqsUpTo(PluginNames, MaxSteps)}

\* the output formats vary
OutputScenarios ==
    {[BaseScenario EXCEPT !.recipe.OutputFormats = o] :
        o \in SeqsUpTo(OutputFormatChoices, MaxOutputs)}

\* one scenario for each exit path of ProcessFile, behind every upload source
PathScenarios ==
    {BaseScenario,
     [BaseScenario EXCEPT !.recipeName = "q"],
     [BaseScenario EXCEPT !.mime = <<"p">>],
     [BaseScenario EXCEPT !.size = 0],
     [BaseScenario EXCEPT !.recipe.ProcessingSteps = <<"x">>],
     [BaseScenario EXCEPT !.recipe.OutputFormats =
         <<[StorageType |-> "bogus", TargetFileNames |-> <<"out.txt">>]>>]}

UploadScenarios ==
    {[sc EXCEPT !.upload = u] : sc \in PathScenarios, u \in UploadSources}

\* the public base path varies, for one output format of each storage type
ConfigScenarios ==
    {[BaseScenario EXCEPT !.publicBase = b,
                          !.recipe.OutputFormats =
                              <<[StorageType |-> t, TargetFileNames |-> <<"out.txt">>]>>] :
        b \in PublicBasePaths,
        t \in {FileStorageTypePrivate, FileStorageTypeTemp, FileStorageTypePublic}}

Scenarios ==
    ValidationScenarios \cup StepScenarios \cup OutputScenarios \cup UploadScenarios
    \cup ConfigScenarios
    \* the virus scan is the first step of the recipe
    \cup {[BaseScenario EXCEPT !.recipe.ProcessingSteps = st] :
            st \in {<<ScanPluginName>>, <<ScanPluginName, "p">>}}

\* the content of the file handed to ProcessFile: HandleFileUpload leaves
\* Content nil; a file built by the caller carries FileSize bytes
ContentOf(sc) == IF sc.upload = <<>> THEN [i \in 1..sc.size |-> "b"] ELSE <<>>

NoRecipe ==
    [AcceptedMimeTypes |-> <<>>, MinFileSize |-> 0, MaxFileSize |-> 0,
     ProcessingSteps |-> <<>>, OutputFormats |-> <<>>]

\* no call of RunProcessingStep
SingleIdle ==
    [pc |-> "idle", pluginName |-> "", targetStorageType |-> "", file |-> <<>>,
     fileProcess |-> [ProcessingUpdates |-> <<>>, LatestStatus |-> <<>>],
     lookups |-> <<>>, invocations |-> <<>>, outcome |-> <<>>,
     processedFiles |-> <<>>, renamed |-> FALSE,
     ret |-> [file |-> <<>>, err |-> NilError]]

\* no call of GetPublicUrlForFile
UrlIdle == [pc |-> "idle", localFilePath |-> <<>>, pubUrl |-> <<>>, err |-> NilError]

\* no output file is being named
NamingIdle ==
    [pc |-> "idle", pieces |-> <<>>, template |-> <<>>, MetaData |-> <<>>,
     FileName |-> <<>>, resolved |-> <<>>, targetFilePath |-> <<>>,
     StorageType |-> "", LocalFilePath |-> <<>>]

\* the state after NewFileManager, AddProcessingPlugin, LoadRecipes,
\* NewFileProcess and make(chan *FileProcess), for the scenarios of S: all
\* but the file system, the call of RunProcessingStep and the naming
InitRun(S) ==
    \E sc \in S, cap \in 0..MaxChanCap :
        /\ recipes = [n \in {"r"} |-> sc.recipe]
        /\ processingPlugins = {"p", ScanPluginName}
        /\ recipeName = sc.recipeName
        /\ file = [FileName |-> "in.txt", MimeType |-> sc.mime,
                   FileSize |-> sc.size, Content |-> ContentOf(sc),
                   ProcessingErrors |-> <<>>]
        /\ upload = sc.upload
        /\ statusCh = [cap |-> cap, buf |-> <<>>, closed |-> 0]
        /\ pc = IF sc.upload = <<>> THEN "RecipeLookup" ELSE "CreateTemp"
        /\ sending = FALSE
        /\ recipe = NoRecipe
        /\ files = <<>>
        /\ stepIdx = 1
        /\ result = [files |-> <<>>, err |-> NilError]
        /\ outIdx = <<1, 1>>
        /\ outputFiles = <<>>
        /\ ProcessingUpdates = <<>>
        /\ LatestStatus = <<>>
        /\ progressReader = [Size |-> 0, Uploaded |-> 0, Done |-> FALSE]
        /\ storage = <<>>
        /\ cpc = "recv"
        /\ seen = <<>>
        /\ hist = [sent |-> <<>>, pluginCalls |-> <<>>, mimeChecked |-> FALSE,
                   sizeChecked |-> FALSE, startLen |-> -1, closedAt |-> -1,
                   calls |-> <<>>, raced |-> FALSE]
        /\ publicLocalBasePath = sc.publicBase
        /\ mu = [writer |-> FALSE, readers |-> 0]
        /\ rpc = "idle"
        /\ other = "OutputExpansion"

\* a run on an empty file system, with no call of RunProcessingStep
InitFrom(S) ==
    /\ InitRun(S)
    /\ disk = <<>>
    /\ single = SingleIdle
    /\ naming = NamingIdle
    /\ urlCall = UrlIdle

Init == InitFrom(Scenarios)

\* the scenarios of the draining runs: every exit path, behind no upload and
\* behind every upload source, and the recipes of two steps
DrainScenarios ==
    PathScenarios \cup UploadScenarios
    \cup {[BaseScenario EXCEPT !.recipe.ProcessingSteps = st] :
            st \in {<<"p", "p">>, <<"", "p">>, <<"p", "x">>}}



(***************************************************************************)
(* The producer task of the README: HandleFileUpload (when there is an     *)
(* upload), then ProcessFile unless the upload failed.  Every              *)
(* `statusCh <- fileProcess` is a blocking point: the action that reaches  *)
(* it sets `sending`, and the task goes on once the send has happened.     *)
(***************************************************************************)
\* fileProcess.AddProcessingUpdate(status); statusCh <- fileProcess; go on at next
Emit(status, next) ==
    /\ AddProcessingUpdate(status)
    /\ sending' = TRUE
    /\ pc' = next

\* faulty variant: a return that skips the close of the channel
ReturnWithoutClose == "Returned"

\* where a return from ProcessFile leads: the deferred close(statusCh)
ReturnFromProcessFile == "Close"

\* where a return from HandleFileUpload with an error leads: the README's
\* task returns without calling ProcessFile
ReturnUploadError == "TaskEnd"

CreateTempError == Errorf("create temp", "")
CopyError == Errorf("copy", "")
PluginError == Errorf("plugin failed", "")
SaveError == Errorf("save", "")

\* HandleFileUpload, lines 14-36: the temporary file
UploadCreateTemp ==
    /\ pc = "CreateTemp"
    /\ ~sending
    /\ \E ok \in BOOLEAN :
        IF ok
        THEN /\ pc' = "Copy"
             /\ progressReader' = [Size |-> 0, Uploaded |-> 0, Done |-> FALSE]
             /\ UNCHANGED <<ProcessingUpdates, LatestStatus, sending>>
        ELSE /\ Emit(ProcessingStatus("FileUpload", 0, CreateTempError, TRUE, <<>>),
                     ReturnUploadError)
             /\ UNCHANGED progressReader
    /\ UNCHANGED <<envVars, disk, recipes, processingPlugins, recipeName, file, upload, statusCh,
                   recipe, files, stepIdx, result, outIdx, outputFiles, storage,
                   cpc, seen, hist>>

\* int(float64(r.Uploaded) / float64(r.Size) * 100), clamped to 100; on the
\* sizes of the model the float quotient and the integer one agree
UploadPercentage(uploaded, size) ==
    IF (uploaded * 100) \div size > 100 THEN 100 ELSE (uploaded * 100) \div size

\* faulty variant: Read reports although the total size is not known
ReadReportsUnsized(size, done, percentage) == ~done /\ percentage # 100

\* faulty variant: Read reports the completed transfer (100 percent) too
ReadReportsCompletion(size, done, percentage) == size > 0 /\ ~done

\* whether Read appends and sends a status: r.Size > 0 && !r.Done, and the
\* else branch of `percentage == 100`
ReadReports(size, done, percentage) == size > 0 /\ ~done /\ percentage # 100

\* ProgressReader.Read, called by io.Copy: n bytes or the end or a failure
ProgressRead ==
    /\ pc = "Copy"
    /\ ~sending
    /\ LET src == upload[1]
           remaining == src.total - progressReader.Uploaded
       IN \E n \in 0..remaining, err \in {"nil", "EOF", "fail"} :
            /\ (err = "nil") => n > 0
            /\ (err = "EOF") => (n = 0 /\ remaining = 0)
            /\ (err = "fail") => n = 0
            /\ LET uploaded == progressReader.Uploaded + n
                   size == IF progressReader.Size = 0 /\ src.isFile
                           THEN src.total ELSE progressReader.Size
                   percentage == IF size > 0 THEN UploadPercentage(uploaded, size) ELSE 0
                   next == CASE err = "nil" -> "Copy"
                             [] err = "EOF" -> "UploadDone"
                             [] OTHER -> "CopyFailed"
               IN /\ progressReader' = [progressReader EXCEPT !.Uploaded = uploaded,
                                                              !.Size = size]
                  /\ IF ReadReports(size, progressReader.Done, percentage)
                     THEN Emit(ProcessingStatus("FileUpload", percentage, NilError,
                                                FALSE, <<>>), next)
                     ELSE /\ pc' = next
                          /\ UNCHANGED <<ProcessingUpdates, LatestStatus, sending>>
    /\ UNCHANGED <<envVars, disk, recipes, processingPlugins, recipeName, file, upload, statusCh,
                   recipe, files, stepIdx, result, outIdx, outputFiles, storage,
                   cpc, seen, hist>>

\* HandleFileUpload, lines 39-53: io.Copy failed
UploadCopyFailed ==
    /\ pc = "CopyFailed"
    /\ ~sending
    /\ Emit(ProcessingStatus("FileUpload", 0, CopyError, TRUE, <<>>), ReturnUploadError)
    /\ UNCHANGED <<envVars, disk, recipes, processingPlugins, recipeName, file, upload, statusCh,
                   recipe, files, stepIdx, result, outIdx, outputFiles,
                   progressReader, storage, cpc, seen, hist>>

\* the percentage the final upload status takes over (lines 80-81)
UploadFinalPercentage(latest) == IF latest # <<>> THEN latest[1].Percentage ELSE 0

\* HandleFileUpload, lines 55-90: the upload succeeded
UploadFinish ==
    /\ pc = "UploadDone"
    /\ ~sending
    /\ LET percentage == UploadFinalPercentage(LatestStatus)
           resultingFile == [FileName |-> file.FileName,
                             LocalFilePath |-> <<"localTempPath", file.FileName>>,
                             URL |-> <<>>,
                             FileSize |-> file.FileSize,
                             MimeType |-> ToString(file.MimeType)]
       IN Emit(ProcessingStatus("FileUpload", percentage, NilError,
                                percentage = 100, <<resultingFile>>),
               "RecipeLookup")
    /\ UNCHANGED <<envVars, disk, recipes, processingPlugins, recipeName, file, upload, statusCh,
                   recipe, files, stepIdx, result, outIdx, outputFiles,
                   progressReader, storage, cpc, seen, hist>>


(***************************************************************************)
(* ProcessFile.                                                            *)
(***************************************************************************)
\* the terminal statuses of ProcessFile's failure paths
RecipeNotFoundStatus(name) ==
    ProcessingStatus("RecipeCheck", 0, Errorf("recipe not found: %s", name), TRUE, <<>>)

InvalidMimeTypeStatus(mimeType) ==
    ProcessingStatus("MimeTypeCheck", 0,
                     Errorf("invalid MIME type: %s", ToString(mimeType)), TRUE, <<>>)

InvalidFileSizeStatus(size) ==
    ProcessingStatus("FileSizeCheck", 0,
                     Errorf("invalid file size: %d bytes", ToString(size)), TRUE, <<>>)

PluginNotFoundStatus(pluginName) ==
    ProcessingStatus(pluginName, 0,
                     Errorf("processing plugin(%s) not found", pluginName), TRUE, <<>>)

\* faulty variant: the failure status of a plugin is not marked done
PluginFailedStatusNotDone(pluginName, err) ==
    ProcessingStatus(pluginName, 0, err, FALSE, <<>>)

PluginFailedStatus(pluginName, err) ==
    ProcessingStatus(pluginName, 0, err, TRUE, <<>>)

InvalidStorageTypeStatus(t) ==
    ProcessingStatus("OutputFormatCheck", 0,
                     Errorf("invalid storage type: %s", t), TRUE, <<>>)

SaveFailedStatus(err) ==
    ProcessingStatus("FileSave", 0, err, TRUE, <<>>)

\* percentage := (len(files) * 100) / len(recipe.ProcessingSteps)
StepPercentage(fs, steps) == (Len(fs) * 100) \div Len(steps)

\* faulty variant: the status of a completed step lists the current files
StepCompletedStatusWithFiles(pluginName, fs, steps) ==
    ProcessingStatus(pluginName, StepPercentage(fs, steps), NilError, FALSE, fs)

\* faulty variant: the status of a completed step is marked done
StepCompletedStatusDone(pluginName, fs, steps) ==
    ProcessingStatus(pluginName, StepPercentage(fs, steps), NilError, TRUE, <<>>)

StepCompletedStatus(pluginName, fs, steps) ==
    ProcessingStatus(pluginName, StepPercentage(fs, steps), NilError, FALSE, <<>>)

\* faulty variant: the success status lists no file
CompletedStatusNoFiles(resultingFiles) ==
    ProcessingStatus("FileProcessing", 100, NilError, TRUE, <<>>)

CompletedStatus(resultingFiles) ==
    ProcessingStatus("FileProcessing", 100, NilError, TRUE, resultingFiles)

\* the phase that follows each passed check
AfterRecipeLookup == "MimeValidate"
\* faulty variant: the size check is skipped
AfterMimeValidateSkipSize == "StepExecution"
AfterMimeValidate == "SizeValidate"
AfterSizeValidate == "StepExecution"

\* recipe, ok := fm.recipes[recipeName]: a missing key gives the zero Recipe
LookupRecipe(rs, name) == IF name \in DOMAIN rs THEN rs[name] ELSE NoRecipe

\* faulty variant: the result of the lookup is not tested
RecipeFoundUnchecked(rs, name) == TRUE

RecipeFound(rs, name) == name \in DOMAIN rs

\* lines 68-82
RecipeLookup ==
    /\ pc = "RecipeLookup"
    /\ ~sending
    /\ hist' = [hist EXCEPT !.startLen = Len(ProcessingUpdates)]
    /\ recipe' = LookupRecipe(recipes, recipeName)
    /\ IF ~RecipeFound(recipes, recipeName)
       THEN Emit(RecipeNotFoundStatus(recipeName), ReturnFromProcessFile)
       ELSE /\ pc' = AfterRecipeLookup
            /\ UNCHANGED <<ProcessingUpdates, LatestStatus, sending>>
    /\ UNCHANGED <<envVars, disk, recipes, processingPlugins, recipeName, file, upload, statusCh,
                   files, stepIdx, result, outIdx, outputFiles, progressReader,
                   storage, cpc, seen>>

\* lines 84-97
MimeValidate ==
    /\ pc = "MimeValidate"
    /\ ~sending
    /\ hist' = [hist EXCEPT !.mimeChecked = TRUE]
    /\ IF ~isValidMimeType(file.MimeType, recipe.AcceptedMimeTypes)
       THEN Emit(InvalidMimeTypeStatus(file.MimeType), ReturnFromProcessFile)
       ELSE /\ pc' = AfterMimeValidate
            /\ UNCHANGED <<ProcessingUpdates, LatestStatus, sending>>
    /\ UNCHANGED <<envVars, disk, recipes, processingPlugins, recipeName, file, upload, statusCh,
                   recipe, files, stepIdx, result, outIdx, outputFiles,
                   progressReader, storage, cpc, seen>>

\* lines 99-115
SizeValidate ==
    /\ pc = "SizeValidate"
    /\ ~sending
    /\ hist' = [hist EXCEPT !.sizeChecked = TRUE]
    /\ IF isInvalidFileSize(file.FileSize, recipe)
       THEN /\ Emit(InvalidFileSizeStatus(file.FileSize), ReturnFromProcessFile)
            /\ UNCHANGED files
       ELSE /\ pc' = AfterSizeValidate
            /\ files' = <<"in">>
            /\ UNCHANGED <<ProcessingUpdates, LatestStatus, sending>>
    /\ UNCHANGED <<envVars, disk, recipes, processingPlugins, recipeName, file, upload, statusCh,
                   recipe, stepIdx, result, outIdx, outputFiles, progressReader,
                   storage, cpc, seen>>

\* What a plugin's Process can do with the file set fs: pass it through
\* without a status, fail at once, or append a status of its own and then
\* fail, return the
\* same files, return the same files after writing new content into them
\* (file.Content = ...), return no file, or return MaxFiles newly created
\* file objects.
PluginOutcomes(fs) ==
    {[status |-> FALSE, err |-> NilError, files |-> fs, mutate |-> FALSE, note |-> FALSE],
     [status |-> FALSE, err |-> PluginError, files |-> <<>>, mutate |-> FALSE, note |-> FALSE],
     [status |-> TRUE, err |-> PluginError, files |-> <<>>, mutate |-> FALSE, note |-> FALSE],
     [status |-> TRUE, err |-> NilError, files |-> fs, mutate |-> FALSE, note |-> FALSE],
     [status |-> TRUE, err |-> NilError, files |-> fs, mutate |-> TRUE, note |-> FALSE],
     [status |-> TRUE, err |-> NilError, files |-> <<>>, mutate |-> FALSE, note |-> FALSE],
     [status |-> TRUE, err |-> NilError, files |-> [i \in 1..MaxFiles |-> "new"],
      mutate |-> FALSE, note |-> FALSE]}

\* ClamAVPlugin.Process on a file set of one file, what the scan gets as
\* the first step of a recipe: it appends its status, and then the scan
\* fails (an error, no files), or the result is OK, or the file is flagged:
\* a note goes to file.ProcessingErrors; in both cases the file is returned
\* with no error. On no file it returns no file.
ScanOutcomes(fs) ==
    IF fs = <<>>
    THEN {[status |-> FALSE, err |-> NilError, files |-> fs, mutate |-> FALSE,
           note |-> FALSE]}
    ELSE {[status |-> TRUE, err |-> Errorf("failed to scan file: %v", ""),
           files |-> <<>>, mutate |-> FALSE, note |-> FALSE],
          [status |-> TRUE, err |-> NilError, files |-> fs, mutate |-> FALSE,
           note |-> FALSE],
          [status |-> TRUE, err |-> NilError, files |-> fs, mutate |-> FALSE,
           note |-> TRUE]}

\* what the Process of the plugin registered under pluginName can do
PluginOutcomesOf(pluginName, fs) ==
    IF pluginName = ScanPluginName THEN ScanOutcomes(fs) ELSE PluginOutcomes(fs)

\* the note of the scan on a flagged file
VirusNote == "virus detected: %s"

\* faulty variant: the finding is not noted on the file
ScanFindingDropped(f, note) == f

\* file.ProcessingErrors = append(file.ProcessingErrors, note)
ScanFinding(f, note) == [f EXCEPT !.ProcessingErrors = Append(@, note)]

\* the bytes a plugin writes into a file it changes in place, and the bytes
\* of a file object a plugin creates
MutatedContent == <<"m">>
NewContent == <<"n">>

\* the content of a member of the file set: "in" is the pointer to the file
\* handed to ProcessFile, "new" a file object created by a plugin
FileContent(f, in) == IF f = "in" THEN in.Content ELSE NewContent

\* the file handed to ProcessFile after the plugin's call
FileAfterPlugin(in, fs, o) ==
    IF o.mutate /\ (\E i \in DOMAIN fs : fs[i] = "in")
    THEN [in EXCEPT !.Content = MutatedContent]
    ELSE IF o.note /\ (\E i \in DOMAIN fs : fs[i] = "in")
    THEN ScanFinding(in, VirusNote)
    ELSE in

\* faulty variant: an empty plugin name is looked up like any other
SkipStepNever(pluginName) == FALSE

\* if step.PluginName == "" { continue }
SkipStep(pluginName) == pluginName = ""

\* faulty variant: the error of the plugin is ignored
PluginFailedIgnored(err) == FALSE

\* if err != nil, after plugin.Process
PluginFailed(err) == err # NilError

\* the name a concurrent AddProcessingPlugin registers
NewPluginName == "x"

\* faulty variant: the names of all steps are resolved before the first step
PluginLookupWholeRecipe(name) ==
    IF \E k \in DOMAIN recipe.ProcessingSteps :
          recipe.ProcessingSteps[k] \notin processingPlugins \cup {""}
    THEN {"missing"}
    ELSE {"found"}

\* plugin, ok := fm.processingPlugins[step.PluginName], read without fm.mu.
\* While another task is inside the map assignment of AddProcessingPlugin
\* the read is a data race: it sees the map before or after the write, or
\* the runtime stops the program (concurrent map read and map write).
PluginLookup(name) ==
    LET answer(registry) == IF name \in registry THEN "found" ELSE "missing"
    IN IF rpc = "writing"
       THEN {answer(processingPlugins),
             answer(processingPlugins \cup {NewPluginName}), "fatal"}
       ELSE {answer(processingPlugins)}

\* the history after a registry read of ProcessFile
AfterRegistryRead(h) == [h EXCEPT !.raced = @ \/ (rpc = "writing")]

\* lines 117-138: the head of the range loop, up to the call of the plugin
StepExecution ==
    /\ pc = "StepExecution"
    /\ ~sending
    /\ IF stepIdx > Len(recipe.ProcessingSteps)
       THEN /\ pc' = "OutputExpansion"
            /\ UNCHANGED <<ProcessingUpdates, LatestStatus, sending, stepIdx,
                           result, hist, file>>
       ELSE LET pluginName == recipe.ProcessingSteps[stepIdx]
            IN IF SkipStep(pluginName)
               THEN /\ stepIdx' = stepIdx + 1
                    /\ UNCHANGED <<ProcessingUpdates, LatestStatus, sending, pc,
                                   result, hist, file>>
               ELSE \E look \in PluginLookup(pluginName) :
               IF look = "fatal"
               THEN /\ pc' = "Crashed"
                    /\ hist' = AfterRegistryRead(hist)
                    /\ UNCHANGED <<ProcessingUpdates, LatestStatus, sending,
                                   stepIdx, result, file>>
               ELSE IF look = "missing"
               THEN /\ Emit(PluginNotFoundStatus(pluginName), ReturnFromProcessFile)
                    /\ hist' = AfterRegistryRead(hist)
                    /\ UNCHANGED <<stepIdx, result, file>>
               ELSE \E o \in PluginOutcomesOf(pluginName, files) :
                    /\ hist' = [AfterRegistryRead(hist) EXCEPT
                            !.pluginCalls = Append(@, pluginName),
                            !.calls = Append(@, [step |-> stepIdx,
                                                 plugin |-> pluginName,
                                                 input |-> files,
                                                 output |-> o.files,
                                                 err |-> o.err,
                                                 status |-> o.status,
                                                 mutate |-> o.mutate,
                                                 note |-> o.note,
                                                 fileAt |-> file,
                                                 fileAfter |->
                                                     FileAfterPlugin(file, files, o),
                                                 at |-> Len(ProcessingUpdates)])]
                    /\ result' = [files |-> o.files, err |-> o.err]
                    /\ file' = FileAfterPlugin(file, files, o)
                    /\ pc' = "StepResult"
                    /\ IF o.status
                       THEN AddProcessingUpdate(
                                ProcessingStatus(pluginName, 0, NilError, FALSE, <<>>))
                       ELSE UNCHANGED <<ProcessingUpdates, LatestStatus>>
                    /\ UNCHANGED <<sending, stepIdx>>
    /\ UNCHANGED <<envVars, disk, recipes, processingPlugins, recipeName, upload, statusCh,
                   recipe, files, outIdx, outputFiles, progressReader, storage,
                   cpc, seen>>

\* faulty variant: the returned files are added to the file set
NextFileSetAppended(fs, processedFiles) == fs \o processedFiles

\* files = processedFiles
NextFileSet(fs, processedFiles) == processedFiles

\* lines 139-166: the plugin has returned
StepResult ==
    /\ pc = "StepResult"
    /\ ~sending
    /\ LET pluginName == recipe.ProcessingSteps[stepIdx]
       IN IF PluginFailed(result.err)
          THEN /\ Emit(PluginFailedStatus(pluginName, result.err), ReturnFromProcessFile)
               /\ UNCHANGED <<files, stepIdx>>
          ELSE /\ files' = NextFileSet(files, result.files)
               /\ Emit(StepCompletedStatus(pluginName, result.files,
                                           recipe.ProcessingSteps),
                       "StepExecution")
               /\ stepIdx' = stepIdx + 1
    /\ UNCHANGED <<envVars, disk, recipes, processingPlugins, recipeName, file, upload, statusCh,
                   recipe, result, outIdx, outputFiles, progressReader, storage,
                   cpc, seen, hist>>

\* lines 174-241: one target name of one output format
OutputExpansion ==
    /\ pc = "OutputExpansion"
    /\ ~sending
    /\ LET i == outIdx[1]
           j == outIdx[2]
       IN IF i > Len(recipe.OutputFormats)
          THEN /\ pc' = "Terminal"
               /\ UNCHANGED <<ProcessingUpdates, LatestStatus, sending, outIdx,
                              outputFiles, storage, disk>>
          ELSE IF j > Len(recipe.OutputFormats[i].TargetFileNames)
          THEN /\ outIdx' = <<i + 1, 1>>
               /\ UNCHANGED <<ProcessingUpdates, LatestStatus, sending, pc,
                              outputFiles, storage, disk>>
          ELSE LET t == recipe.OutputFormats[i].StorageType
                   name == recipe.OutputFormats[i].TargetFileNames[j]
               IN IF ~IsStorageType(t)
                  THEN /\ Emit(InvalidStorageTypeStatus(t), ReturnFromProcessFile)
                       /\ UNCHANGED <<outIdx, outputFiles, storage, disk>>
                  ELSE \E saved \in BOOLEAN :
                       IF saved
                       THEN /\ storage' = Append(storage,
                                    [path |-> LocalPathFor(t, name),
                                     content |-> file.Content])
                            /\ disk' = WriteFile(disk, LocalPathFor(t, name),
                                                 file.Content)
                            /\ outputFiles' = Append(outputFiles,
                                    SavedOutputFile(name, t, file.Content))
                            /\ outIdx' = <<i, j + 1>>
                            /\ UNCHANGED <<ProcessingUpdates, LatestStatus,
                                           sending, pc>>
                       ELSE /\ Emit(SaveFailedStatus(SaveError), ReturnFromProcessFile)
                            /\ UNCHANGED <<outIdx, outputFiles, storage, disk>>
    /\ UNCHANGED <<envVars, recipes, processingPlugins, recipeName, file, upload, statusCh,
                   recipe, files, stepIdx, result, progressReader, cpc, seen, hist>>

\* fileProcess.LatestStatus.Done = true (line 266)
SetLatestDone(latest) == <<[latest[1] EXCEPT !.Done = TRUE]>>

\* lines 243-268: the success status
Terminal ==
    /\ pc = "Terminal"
    /\ ~sending
    /\ ProcessingUpdates' = AppendUpdate(ProcessingUpdates, CompletedStatus(outputFiles))
    /\ LatestStatus' = SetLatestDone(LatestOf(CompletedStatus(outputFiles)))
    /\ sending' = TRUE
    /\ pc' = ReturnFromProcessFile
    /\ UNCHANGED <<envVars, disk, recipes, processingPlugins, recipeName, file, upload, statusCh,
                   recipe, files, stepIdx, result, outIdx, outputFiles,
                   progressReader, storage, cpc, seen, hist>>

\* line 66: defer close(statusCh)
Close ==
    /\ pc = "Close"
    /\ ~sending
    /\ statusCh' = [statusCh EXCEPT !.closed = @ + 1]
    /\ hist' = [hist EXCEPT !.closedAt = Len(hist.sent)]
    /\ pc' = "Returned"
    /\ UNCHANGED <<envVars, disk, recipes, processingPlugins, recipeName, file, upload, sending,
                   recipe, files, stepIdx, result, outIdx, outputFiles,
                   ProcessingUpdates, LatestStatus, progressReader, storage, cpc,
                   seen>>

(***************************************************************************)
(* The channel and the consumer loop of the README:                        *)
(*   for processUpdate := range statusCh {                                 *)
(*       latestStatus := processUpdate.GetLatestProcessingStatus() ... }   *)
(* The message is the pointer to the shared FileProcess; the consumer      *)
(* reads LatestStatus in a step of its own, after the receive.             *)
(***************************************************************************)
\* statusCh <- fileProcess on an unbuffered channel: hand-over to a receiver
SendRendezvous ==
    /\ sending
    /\ statusCh.cap = 0
    /\ cpc = "recv"
    /\ sending' = FALSE
    /\ cpc' = "read"
    /\ hist' = [hist EXCEPT !.sent = Append(@, Len(ProcessingUpdates))]
    /\ UNCHANGED <<envVars, disk, recipes, processingPlugins, recipeName, file, upload, statusCh,
                   pc, recipe, files, stepIdx, result, outIdx, outputFiles,
                   ProcessingUpdates, LatestStatus, progressReader, storage, seen>>

\* statusCh <- fileProcess on a buffered channel with room
SendBuffered ==
    /\ sending
    /\ Len(statusCh.buf) < statusCh.cap
    /\ sending' = FALSE
    /\ statusCh' = [statusCh EXCEPT !.buf = Append(@, "fileProcess")]
    /\ hist' = [hist EXCEPT !.sent = Append(@, Len(ProcessingUpdates))]
    /\ UNCHANGED <<envVars, disk, recipes, processingPlugins, recipeName, file, upload, pc,
                   recipe, files, stepIdx, result, outIdx, outputFiles,
                   ProcessingUpdates, LatestStatus, progressReader, storage, cpc,
                   seen>>

\* the range loop takes a buffered message
Receive ==
    /\ cpc = "recv"
    /\ statusCh.buf # <<>>
    /\ statusCh' = [statusCh EXCEPT !.buf = Tail(@)]
    /\ cpc' = "read"
    /\ UNCHANGED <<envVars, disk, recipes, processingPlugins, recipeName, file, upload, pc,
                   sending, recipe, files, stepIdx, result, outIdx, outputFiles,
                   ProcessingUpdates, LatestStatus, progressReader, storage, seen,
                   hist>>

\* the range loop ends: the channel is closed and drained
ReceiveClosed ==
    /\ cpc = "recv"
    /\ statusCh.buf = <<>>
    /\ statusCh.closed > 0
    /\ cpc' = "stopped"
    /\ UNCHANGED <<envVars, disk, recipes, processingPlugins, recipeName, file, upload, statusCh,
                   pc, sending, recipe, files, stepIdx, result, outIdx,
                   outputFiles, ProcessingUpdates, LatestStatus, progressReader,
                   storage, seen, hist>>

\* latestStatus := processUpdate.GetLatestProcessingStatus()
ReadLatest ==
    /\ cpc = "read"
    /\ seen' = Append(seen, [idx |-> Len(ProcessingUpdates), status |-> LatestStatus[1]])
    /\ cpc' = "recv"
    /\ UNCHANGED <<envVars, disk, recipes, processingPlugins, recipeName, file, upload, statusCh,
                   pc, sending, recipe, files, stepIdx, result, outIdx,
                   outputFiles, ProcessingUpdates, LatestStatus, progressReader,
                   storage, hist>>

\* the consumer stops receiving in the middle of a run
Abandon ==
    /\ cpc = "recv"
    /\ statusCh.closed = 0
    /\ cpc' = "abandoned"
    /\ UNCHANGED <<envVars, disk, recipes, processingPlugins, recipeName, file, upload, statusCh,
                   pc, sending, recipe, files, stepIdx, result, outIdx,
                   outputFiles, ProcessingUpdates, LatestStatus, progressReader,
                   storage, seen, hist>>

(***************************************************************************)
(* Other tasks on the same FileManager: a task that registers a plugin     *)
(* while files are processed, and a second ProcessFile run with its own    *)
(* FileProcess, file and channel, of which only the steps that touch what  *)
(* the runs share (the file system) are steps of the model.                *)
(***************************************************************************)
\* AddProcessingPlugin: fm.mu.Lock()
RegistrarLock ==
    /\ rpc = "idle"
    /\ ~mu.writer
    /\ mu.readers = 0
    /\ mu' = [mu EXCEPT !.writer = TRUE]
    /\ rpc' = "writing"
    /\ UNCHANGED <<recipes, processingPlugins, recipeName, file, upload, statusCh,
                   pc, sending, recipe, files, stepIdx, result, outIdx,
                   outputFiles, ProcessingUpdates, LatestStatus, progressReader,
                   storage, cpc, seen, hist, publicLocalBasePath, other, disk, single,
                   naming, urlCall>>

\* AddProcessingPlugin: fm.processingPlugins[name] = plugin
RegistrarWrite ==
    /\ rpc = "writing"
    /\ processingPlugins' = processingPlugins \cup {NewPluginName}
    /\ rpc' = "written"
    /\ UNCHANGED <<recipes, recipeName, file, upload, statusCh,
                   pc, sending, recipe, files, stepIdx, result, outIdx,
                   outputFiles, ProcessingUpdates, LatestStatus, progressReader,
                   storage, cpc, seen, hist, publicLocalBasePath, mu, other, disk, single,
                   naming, urlCall>>

\* AddProcessingPlugin: the deferred fm.mu.Unlock()
RegistrarUnlock ==
    /\ rpc = "written"
    /\ mu' = [mu EXCEPT !.writer = FALSE]
    /\ rpc' = "done"
    /\ UNCHANGED <<recipes, processingPlugins, recipeName, file, upload, statusCh,
                   pc, sending, recipe, files, stepIdx, result, outIdx,
                   outputFiles, ProcessingUpdates, LatestStatus, progressReader,
                   storage, cpc, seen, hist, publicLocalBasePath, other, disk, single,
                   naming, urlCall>>

\* the content of the file of the second run

\* the second run, in output expansion, saves the output of one target of
\* its recipe and returns
OtherRunSave ==
    /\ other = "OutputExpansion"
    /\ \E rn \in DOMAIN recipes :
       \E i \in DOMAIN recipes[rn].OutputFormats :
       \E j \in DOMAIN recipes[rn].OutputFormats[i].TargetFileNames :
            /\ IsStorageType(recipes[rn].OutputFormats[i].StorageType)
            /\ disk' = WriteFile(disk,
                                 LocalPathFor(recipes[rn].OutputFormats[i].StorageType,
                                              recipes[rn].OutputFormats[i].TargetFileNames[j]),
                                 <<"o">>)
    /\ other' = "Returned"
    /\ UNCHANGED <<recipes, processingPlugins, recipeName, file, upload, statusCh,
                   pc, sending, recipe, files, stepIdx, result, outIdx,
                   outputFiles, ProcessingUpdates, LatestStatus, progressReader,
                   storage, cpc, seen, hist, publicLocalBasePath, mu, rpc, single, naming, urlCall>>

(***************************************************************************)
(* RunProcessingStep: one plugin on one file, outside of any recipe.       *)
(***************************************************************************)
\* a file object a plugin creates (extracted pages, a converted file): it
\* has a name and content, and no local path
NewManagedFile == [FileName |-> "new.pdf", LocalFilePath |-> <<>>]

\* the member of the returned file set behind a token of PluginOutcomes
SingleFileOf(token, f) == IF token = "in" THEN f ELSE NewManagedFile

\* os.Rename(oldpath, newpath) when it succeeds
Rename(d, oldpath, newpath) ==
    IF oldpath = newpath THEN d
    ELSE WriteFile([q \in DOMAIN d \ {oldpath} |-> d[q]], newpath, d[oldpath])

\* whether os.Rename(oldpath, newpath) can succeed, and can fail: it fails
\* for a file that does not exist and for an empty path, and otherwise
\* depends on the target directory (nothing creates it here)
RenameOutcomes(d, oldpath, newpath) ==
    IF oldpath \in DOMAIN d /\ newpath # <<>> THEN {TRUE, FALSE} ELSE {FALSE}

\* fileProcess.AddProcessingUpdate(update) on the FileProcess the call
\* creates for itself
SingleUpdate(fp, update) ==
    [ProcessingUpdates |-> AppendUpdate(fp.ProcessingUpdates, update),
     LatestStatus |-> LatestOf(update)]

\* faulty variant: the result of the lookup is not tested
SinglePluginExistsAlways(pluginName, registry) == TRUE

\* plugin, exists := fm.processingPlugins[pluginName]
SinglePluginExists(pluginName, registry) == pluginName \in registry

\* faulty variant: the file is moved whenever a storage type is named
NeedsRelocationAlways(target, localPath, current) == target # ""

\* targetStorageType != "" and localPath != resultFile.LocalFilePath
NeedsRelocation(target, localPath, current) ==
    target # "" /\ localPath # current

\* line 283: fm.mu.RLock()
SingleRLock ==
    /\ single.pc = "Called"
    /\ ~mu.writer
    /\ mu' = [mu EXCEPT !.readers = @ + 1]
    /\ single' = [single EXCEPT !.pc = "Lookup"]
    /\ UNCHANGED <<recipes, processingPlugins, recipeName, file, upload, statusCh,
                   pc, sending, recipe, files, stepIdx, result, outIdx,
                   outputFiles, ProcessingUpdates, LatestStatus, progressReader,
                   storage, cpc, seen, hist, publicLocalBasePath, rpc, other, disk,
                   naming, urlCall>>

\* lines 284-300: the lookup, fm.mu.RUnlock(), the return for a name that
\* is not registered, and otherwise the FileProcess of the call with its
\* first update
SingleLookup ==
    /\ single.pc = "Lookup"
    /\ mu' = [mu EXCEPT !.readers = @ - 1]
    /\ LET looked == [single EXCEPT
                         !.lookups = Append(@, [name |-> single.pluginName,
                                                registry |-> processingPlugins])]
       IN IF ~SinglePluginExists(single.pluginName, processingPlugins)
          THEN single' = [looked EXCEPT
                   !.pc = "Returned",
                   !.ret = [file |-> <<>>,
                            err |-> Errorf("processing plugin not found: %s",
                                           single.pluginName)]]
          ELSE single' = [looked EXCEPT
                   !.pc = "Process",
                   !.fileProcess = SingleUpdate(@,
                        ProcessingStatus(single.pluginName, 0, NilError, FALSE, <<>>))]
    /\ UNCHANGED <<recipes, processingPlugins, recipeName, file, upload, statusCh,
                   pc, sending, recipe, files, stepIdx, result, outIdx,
                   outputFiles, ProcessingUpdates, LatestStatus, progressReader,
                   storage, cpc, seen, hist, publicLocalBasePath, rpc, other, disk,
                   naming, urlCall>>

\* lines 291-318: files := []*ManagedFile{file}, the call of the plugin,
\* and the returns for an error and for an empty file set
SingleProcess ==
    /\ single.pc = "Process"
    /\ \E o \in PluginOutcomesOf(single.pluginName, <<"in">>) :
        LET called == [single EXCEPT
                          !.invocations = Append(@, [plugin |-> single.pluginName,
                                                     input |-> <<single.file>>]),
                          !.outcome = <<o>>,
                          !.fileProcess =
                              IF o.status
                              THEN SingleUpdate(@, ProcessingStatus(single.pluginName,
                                                       0, NilError, FALSE, <<>>))
                              ELSE @]
            processedFiles == [i \in DOMAIN o.files |->
                                  SingleFileOf(o.files[i], single.file)]
        IN IF PluginFailed(o.err)
           THEN single' = [called EXCEPT
                    !.pc = "Returned",
                    !.fileProcess = SingleUpdate(@,
                         ProcessingStatus(single.pluginName, 0, o.err, TRUE, <<>>)),
                    !.ret = [file |-> <<>>, err |-> o.err]]
           ELSE IF Len(processedFiles) = 0
           THEN single' = [called EXCEPT
                    !.pc = "Returned",
                    !.ret = [file |-> <<>>,
                             err |-> Errorf("no file processed by plugin: %s",
                                            single.pluginName)]]
           ELSE single' = [called EXCEPT
                    !.pc = "Relocate",
                    !.processedFiles = processedFiles]
    /\ UNCHANGED <<recipes, processingPlugins, recipeName, file, upload, statusCh,
                   pc, sending, recipe, files, stepIdx, result, outIdx,
                   outputFiles, ProcessingUpdates, LatestStatus, progressReader,
                   storage, cpc, seen, hist, publicLocalBasePath, mu, rpc, other,
                   disk, naming, urlCall>>

\* lines 321-343: resultFile := processedFiles[0], the move to the target
\* storage, the last update and the return
SingleRelocate ==
    /\ single.pc = "Relocate"
    /\ LET resultFile == single.processedFiles[1]
           \* fm.GetLocalPathForFile: the empty path for a storage type
           \* its switch does not name
           localPath == LocalPathFor(single.targetStorageType,
                                     resultFile.FileName)
           completed(sg) ==
               [sg EXCEPT !.fileProcess = SingleUpdate(@,
                    ProcessingStatus(single.pluginName, 0, NilError, TRUE, <<>>))]
       IN IF NeedsRelocation(single.targetStorageType, localPath,
                             resultFile.LocalFilePath)
          THEN \E ok \in RenameOutcomes(disk, resultFile.LocalFilePath, localPath) :
                 IF ok
                 THEN /\ disk' = Rename(disk, resultFile.LocalFilePath, localPath)
                      /\ single' = completed([single EXCEPT
                             !.pc = "Returned",
                             !.renamed = TRUE,
                             !.ret = [file |-> [resultFile EXCEPT
                                                   !.LocalFilePath = localPath],
                                      err |-> NilError]])
                 ELSE /\ single' = [single EXCEPT
                             !.pc = "Returned",
                             !.ret = [file |-> <<>>, err |-> Errorf("rename", "")]]
                      /\ UNCHANGED disk
          ELSE /\ single' = completed([single EXCEPT
                      !.pc = "Returned",
                      !.ret = [file |-> resultFile, err |-> NilError]])
               /\ UNCHANGED disk
    /\ UNCHANGED <<recipes, processingPlugins, recipeName, file, upload, statusCh,
                   pc, sending, recipe, files, stepIdx, result, outIdx,
                   outputFiles, ProcessingUpdates, LatestStatus, progressReader,
                   storage, cpc, seen, hist, publicLocalBasePath, mu, rpc, other,
                   naming, urlCall>>

RunProcessingStep == SingleRLock \/ SingleLookup \/ SingleProcess \/ SingleRelocate

(***************************************************************************)
(* The names of the output files: ReplaceFileNameVariables and the         *)
(* extension ProcessFile adds.  Strings are sequences of characters here.  *)
(***************************************************************************)
MaxPieces == 2

\* the text "{metadata." the regular expression starts with
MetaPrefix == <<"{", "m", "e", "t", "a", "d", "a", "t", "a", ".">>

\* the length of the match of `{metadata\.([^}]+)}` at the start of s, or 0:
\* the prefix, one or more characters other than "}", and "}"
MatchLength(s) ==
    IF ~HasPrefix(s, MetaPrefix) THEN 0
    ELSE LET rest == SubSeq(s, Len(MetaPrefix) + 1, Len(s))
             closes == {i \in DOMAIN rest : rest[i] = "}"}
             close == IF closes = {} THEN 0
                      ELSE CHOOSE i \in closes : \A j \in closes : i <= j
         IN IF close >= 2 THEN Len(MetaPrefix) + close ELSE 0

\* fmt.Sprintf("%v", file.MetaData[key]) if the key is there, else ""
MetaDataValue(md, key) == IF key \in DOMAIN md THEN md[key] ELSE <<>>

\* metadataRegex.ReplaceAllStringFunc(fileName, ...): the matches from left
\* to right, none overlapping another; the key of a match is the match
\* without "{metadata." and "}"
RECURSIVE ReplaceAllStringFunc(_, _)
ReplaceAllStringFunc(s, md) ==
    IF s = <<>> THEN <<>>
    ELSE LET n == MatchLength(s)
         IN IF n > 0
            THEN MetaDataValue(md, SubSeq(s, Len(MetaPrefix) + 1, n - 1))
                     \o ReplaceAllStringFunc(SubSeq(s, n + 1, Len(s)), md)
            ELSE <<s[1]>> \o ReplaceAllStringFunc(Tail(s), md)

\* mime.TypeByExtension(ext): the type registered for exactly the string
\* ext, which is to begin with its dot (".png"); "" for any other string
MimeTypeByExtension(ext) ==
    IF ext = <<".", "p", "n", "g">>
    THEN <<"i", "m", "a", "g", "e", "/", "p", "n", "g">>
    ELSE <<>>

\* ReplaceFileNameVariables(fileName, file): the tokens replaced, and then
\* mime.TypeByExtension(file.FileName), called on the whole name of the
\* file, appended if it is not empty
ReplaceFileNameVariables(fileName, f) ==
    LET replaced == ReplaceAllStringFunc(fileName, f.MetaData)
        extension == MimeTypeByExtension(f.FileName)
    IN IF extension # <<>> THEN replaced \o extension ELSE replaced

\* filepath.Ext(path): from the last dot of the last element of the path
Ext(path) ==
    LET last(c) == LET at == {i \in DOMAIN path : path[i] = c}
                   IN IF at = {} THEN 0
                      ELSE CHOOSE i \in at : \A j \in at : j <= i
    IN IF last(".") > last("/")
       THEN SubSeq(path, last("."), Len(path))
       ELSE <<>>

\* lines 179-181: the extension of the file is added to a target path
\* that has none
WithExtension(targetFilePath, f) ==
    IF Ext(targetFilePath) = <<>>
    THEN targetFilePath \o Ext(f.FileName)
    ELSE targetFilePath

\* A template is written as pieces: text, or the token of a key.
TemplatePieces ==
    {[token |-> FALSE, text |-> <<"r", "_">>],
     [token |-> FALSE, text |-> <<".", "t">>],
     [token |-> FALSE, text |-> <<"{", "x", "}">>],
     [token |-> FALSE, text |-> <<".", ".", "/">>],
     [token |-> TRUE, text |-> <<"k">>],
     [token |-> TRUE, text |-> <<"j">>]}

\* the text of a template
RECURSIVE TemplateText(_)
TemplateText(pieces) ==
    IF pieces = <<>> THEN <<>>
    ELSE (IF Head(pieces).token
          THEN MetaPrefix \o Head(pieces).text \o <<"}">>
          ELSE Head(pieces).text) \o TemplateText(Tail(pieces))

\* line 177: targetFilePath := ReplaceFileNameVariables(template, file)
NamingResolve ==
    /\ naming.pc = "Resolve"
    /\ naming' = [naming EXCEPT
           !.pc = "Extension",
           !.resolved = ReplaceFileNameVariables(naming.template, naming)]
    /\ UNCHANGED <<recipes, processingPlugins, recipeName, file, upload, statusCh,
                   pc, sending, recipe, files, stepIdx, result, outIdx,
                   outputFiles, ProcessingUpdates, LatestStatus, progressReader,
                   storage, cpc, seen, hist, publicLocalBasePath, mu, rpc, other,
                   disk, single, urlCall>>

\* lines 179-181: the extension
NamingExtension ==
    /\ naming.pc = "Extension"
    /\ naming' = [naming EXCEPT
           !.pc = "Named",
           !.targetFilePath = WithExtension(naming.resolved, naming)]
    /\ UNCHANGED <<recipes, processingPlugins, recipeName, file, upload, statusCh,
                   pc, sending, recipe, files, stepIdx, result, outIdx,
                   outputFiles, ProcessingUpdates, LatestStatus, progressReader,
                   storage, cpc, seen, hist, publicLocalBasePath, mu, rpc, other,
                   disk, single, urlCall>>

\* the elements of a path text, the texts between its slashes
RECURSIVE Split(_)
Split(text) ==
    LET at == {i \in DOMAIN text : text[i] = "/"}
    IN IF at = {} THEN <<text>>
       ELSE LET i == CHOOSE i \in at : \A j \in at : i <= j
            IN <<SubSeq(text, 1, i - 1)>> \o Split(SubSeq(text, i + 1, Len(text)))

\* path.Clean on the elements of a path: empty elements and "." go, ".."
\* removes the element before it; at the head of a rooted path ".." goes,
\* at the head of a relative path it stays
RECURSIVE CleanElements(_, _)
CleanElements(elements, rooted) ==
    IF elements = <<>> THEN <<>>
    ELSE LET before == CleanElements(SubSeq(elements, 1, Len(elements) - 1), rooted)
             element == elements[Len(elements)]
         IN IF element = <<>> \/ element = <<".">> THEN before
            ELSE IF element # <<".", ".">> THEN Append(before, element)
            ELSE IF before # <<>> /\ before[Len(before)] # <<".", ".">>
                 THEN SubSeq(before, 1, Len(before) - 1)
            ELSE IF rooted THEN before
            ELSE Append(before, element)

\* the base path of a storage type, as the elements of a rooted path: /v
\* for private files, /t for temporary ones, /u for public ones
StorageBase(t) ==
    CASE t = FileStorageTypePrivate -> << <<"v">> >>
      [] t = FileStorageTypeTemp -> << <<"t">> >>
      [] t = FileStorageTypePublic -> << <<"u">> >>

\* lines 183-233: fullFilePath is the cleaned target path
\* (getFilePathAndName), the local path is path.Join of the base path of the
\* storage type and fullFilePath, and Save creates the file there; Save
\* fails where the path is a directory, and may fail anywhere
NamingRoute ==
    /\ naming.pc = "Named"
    /\ \E t \in {FileStorageTypePrivate, FileStorageTypeTemp, FileStorageTypePublic},
          created \in BOOLEAN :
         LET target == naming.targetFilePath
             fullFilePath == CleanElements(Split(target),
                                           target # <<>> /\ target[1] = "/")
             localFilePath == CleanElements(StorageBase(t) \o fullFilePath, TRUE)
             saved == created /\ localFilePath \notin {<<>>, StorageBase(t)}
         IN /\ naming' = [naming EXCEPT
                   !.pc = IF saved THEN "Saved" ELSE "SaveFailed",
                   !.StorageType = t,
                   !.LocalFilePath = localFilePath]
            /\ disk' = IF saved
                       THEN WriteFile(disk, localFilePath, <<"b">>)
                       ELSE disk
    /\ UNCHANGED <<recipes, processingPlugins, recipeName, file, upload, statusCh,
                   pc, sending, recipe, files, stepIdx, result, outIdx,
                   outputFiles, ProcessingUpdates, LatestStatus, progressReader,
                   storage, cpc, seen, hist, publicLocalBasePath, mu, rpc, other,
                   single, urlCall>>

Producer ==
    \/ UploadCreateTemp
    \/ ProgressRead
    \/ UploadCopyFailed
    \/ UploadFinish
    \/ RecipeLookup
    \/ MimeValidate
    \/ SizeValidate
    \/ StepExecution
    \/ StepResult
    \/ OutputExpansion
    \/ Terminal
    \/ Close

Channel == SendRendezvous \/ SendBuffered

Consumer == Receive \/ ReceiveClosed \/ ReadLatest

Next == Producer \/ Channel \/ Consumer \/ Abandon

Spec == Init /\ [][Next]_vars

\* the run of the README next to a registration and a second run
Registrar == RegistrarLock \/ RegistrarWrite \/ RegistrarUnlock

SharedScenarios ==
    {BaseScenario,
     [BaseScenario EXCEPT !.recipe.ProcessingSteps = <<"p", "x">>],
     [BaseScenario EXCEPT !.recipe.OutputFormats =
         <<[StorageType |-> FileStorageTypePrivate,
            TargetFileNames |-> <<"a.png", "out.txt">>]>>],
     [BaseScenario EXCEPT !.upload = <<[isFile |-> TRUE, total |-> 1]>>]}

SharedSpec ==
    /\ InitFrom(SharedScenarios)
    /\ [][Producer \/ Channel \/ Consumer \/ Registrar \/ OtherRunSave]_vars

\* a caller that holds a FileProcess of its own calls RunProcessingStep
\* with any of the plugin names, next to a task that registers a plugin;
\* the target storage type is none, one of the three of the package or one
\* the package does not know; the file is in the temporary directory, in
\* the private one, or held in memory only (no local path)
InitStep ==
    /\ InitRun({BaseScenario})
    /\ naming = NamingIdle
    /\ urlCall = UrlIdle
    /\ \E pluginName \in PluginNames,
          target \in {"", FileStorageTypePrivate, FileStorageTypeTemp,
                      FileStorageTypePublic, "bogus"},
          f \in {[FileName |-> "in.txt", LocalFilePath |-> lp] :
                    lp \in {GetLocalTemporaryFilePath("in.txt"),
                            GetPrivateLocalFilePath("in.txt"), <<>>}} :
        /\ single = [SingleIdle EXCEPT !.pc = "Called",
                                       !.pluginName = pluginName,
                                       !.targetStorageType = target,
                                       !.file = f]
        /\ disk = IF f.LocalFilePath = <<>> THEN <<>>
                  ELSE WriteFile(<<>>, f.LocalFilePath, <<"b">>)

StepSpec == InitStep /\ [][RunProcessingStep \/ Registrar]_vars

\* the naming of one output file, for the templates of up to MaxPieces
\* pieces; file.MetaData with its values as %v prints them: none, a word,
\* a dotted value, a value that is a path into the parent directory;
\* file.FileName with an extension, without one, and a
\* name that is nothing but an extension
InitNaming ==
    /\ InitRun({BaseScenario})
    /\ disk = <<>>
    /\ single = SingleIdle
    /\ urlCall = UrlIdle
    /\ \E pieces \in SeqsUpTo(TemplatePieces, MaxPieces),
          md \in {<<>>, (<<"k">> :> <<"e", "n">>), (<<"k">> :> <<"e", ".", "n">>),
                  (<<"k">> :> <<".", ".", "/", "n">>)},
          fileName \in {<<"i", "n", ".", "p", "n", "g">>, <<"i", "n">>,
                        <<".", "p", "n", "g">>} :
        naming = [NamingIdle EXCEPT !.pc = "Resolve",
                                    !.pieces = pieces,
                                    !.template = TemplateText(pieces),
                                    !.MetaData = md,
                                    !.FileName = fileName]

NamingSpec ==
    InitNaming /\ [][NamingResolve \/ NamingExtension \/ NamingRoute]_vars

----------------------------------------------------------------------------
\* GetPublicUrlForFile on its own, on paths as texts: a path is a sequence
\* of characters, the public base path is "/p", and the base URL is one
\* piece of text that ends with a slash.

\* the longest local path handed to GetPublicUrlForFile
MaxPathLen == 4

\* GetPublicUrlForFile(localFilePath): the prefix test, the prefix removed,
\* the rest joined to the base URL
GetPublicUrlCall ==
    /\ urlCall.pc = "call"
    /\ urlCall' =
         [urlCall EXCEPT
            !.pc = "done",
            !.pubUrl = GetPublicUrlForFile(urlCall.localFilePath),
            !.err = IF ~HasPrefix(urlCall.localFilePath, publicLocalBasePath)
                    THEN ErrLocalFileNotFound
                    ELSE NilError]
    /\ UNCHANGED <<recipes, processingPlugins, recipeName, file, upload,
                   statusCh, pc, sending, recipe, files, stepIdx, result,
                   outIdx, outputFiles, ProcessingUpdates, LatestStatus,
                   progressReader, storage, cpc, seen, hist,
                   publicLocalBasePath, mu, rpc, other, disk, single, naming>>

\* every local path of up to MaxPathLen characters that has no empty
\* element ("//")
UrlSpec ==
    /\ InitRun({[BaseScenario EXCEPT !.publicBase = <<"/", "p">>]})
    /\ disk = <<>>
    /\ single = SingleIdle
    /\ naming = NamingIdle
    /\ \E path \in SeqsUpTo({"/", "p", "o"}, MaxPathLen) :
          /\ \A i \in 1..(Len(path) - 1) : ~(path[i] = "/" /\ path[i + 1] = "/")
          /\ urlCall = [UrlIdle EXCEPT !.pc = "call", !.localFilePath = path]
    /\ [][GetPublicUrlCall]_vars

\* the consumer drains the channel until it is closed; some task that can
\* take a step eventually takes one

DrainSpec ==
    /\ InitFrom(DrainScenarios)
    /\ [][Producer \/ Channel \/ Consumer]_vars
    /\ WF_vars(Producer \/ Channel \/ Consumer)


(***************************************************************************)
(* Properties.                                                             *)
(***************************************************************************)
\* ProcessFile has been invoked
Invoked == hist.startLen >= 0

\* the statuses appended since ProcessFile was invoked
OwnUpdates == SubSeq(ProcessingUpdates, hist.startLen + 1, Len(ProcessingUpdates))

\* the log entries marked done
DoneEntries == {i \in DOMAIN ProcessingUpdates : ProcessingUpdates[i].Done}

\* C1: for every ProcessFile invocation the status channel is closed exactly
\* once, after the last send, on every exit path (never twice, closed when
\* ProcessFile has returned, no send after the close); and a consumer that
\* receives until the channel is closed terminates, every task being
\* scheduled and every plugin returning.
C1_ClosedOnceAndDrainTerminates ==
    /\ [](statusCh.closed <= 1)
    /\ [](pc = "Returned" => statusCh.closed = 1)
    /\ [](statusCh.closed > 0 => hist.closedAt = Len(hist.sent))
    /\ [](Invoked => <>(cpc = "stopped"))

\* C1 witness: a run of two steps was drained to the close
C1_Witness ==
    /\ cpc = "stopped"
    /\ statusCh.closed = 1
    /\ Len(hist.pluginCalls) = 2
    /\ Len(seen) = 3

\* C2: when ProcessFile has returned, the log of a FileProcess that was
\* fresh at the start (with or without a successful HandleFileUpload before)
\* has exactly one entry with done = true, and it is the last one.
C2_ExactlyOneDoneAndLast ==
    pc = "Returned" => DoneEntries = {Len(ProcessingUpdates)}

\* C2 witness: ProcessFile returned after an upload that reported progress
C2_Witness ==
    /\ pc = "Returned"
    /\ upload # <<>>
    /\ hist.startLen = 2
    /\ Len(ProcessingUpdates) > 3


\* C3: with an unbuffered channel, the status the consumer reads on its k-th
\* received message is the one the engine emitted with its k-th send (every
\* emitted status seen once, in log order).
C3_ConsumerSeesEveryEmittedStatus ==
    statusCh.cap = 0 =>
        \A k \in DOMAIN seen : seen[k].idx = hist.sent[k]

\* C4: once the consumer has abandoned the channel, a ProcessFile that has
\* not returned yet can still take a step (so it runs on to its return and
\* closes the channel without any further receive).
C4_AbandonedRunStillCompletes ==
    (cpc = "abandoned" /\ Invoked /\ pc # "Returned") => ENABLED (Producer \/ Channel)

\* the log entries that signal a failure: done with an error
FatalEntries ==
    {i \in DOMAIN ProcessingUpdates :
        ProcessingUpdates[i].Done /\ ProcessingUpdates[i].Error # NilError}

\* C5: when the producer task has ended on a fatal condition (a failed
\* upload included), the log holds exactly one terminal status with an error,
\* the last entry, and the channel was closed right after its send.
C5_FatalStatusThenClose ==
    (pc \in {"Returned", "TaskEnd"} /\ ~sending /\ FatalEntries # {}) =>
        /\ FatalEntries = {Len(ProcessingUpdates)}
        /\ statusCh.closed = 1
        /\ hist.closedAt = Len(hist.sent)

\* C6: the consumer that drained the channel to its close read a done status
\* on the last message it received, and no send of the engine but the last
\* one carried a done status (no send follows the terminal one).
C6_LastMessageIsTerminal ==
    /\ cpc = "stopped" => (seen # <<>> /\ seen[Len(seen)].status.Done)
    /\ \A k \in DOMAIN hist.sent :
          ProcessingUpdates[hist.sent[k]].Done => k = Len(hist.sent)

\* C6 witness: a drained run whose last message followed three others
C6_Witness ==
    /\ cpc = "stopped"
    /\ Len(seen) = 4
    /\ seen[4].status.Done
    /\ seen[4].status.Error = NilError

\* the mime type starts, compared in lower case, with some accepted entry
PrefixMatchesAccepted(mimeType, accepted) ==
    \E i \in DOMAIN accepted :
        /\ Len(accepted[i]) <= Len(mimeType)
        /\ \A j \in DOMAIN accepted[i] :
              LowerChar(mimeType[j]) = LowerChar(accepted[i][j])

\* C7: for a loaded recipe, when ProcessFile has returned: if the file's mime
\* type prefix-matches no accepted entry, ProcessFile appended exactly one
\* status, done and with an error, and invoked no plugin; if it matches one,
\* no mime-check failure was reported.
C7_MimeMismatchRejected ==
    (pc = "Returned" /\ recipeName \in DOMAIN recipes) =>
        IF ~PrefixMatchesAccepted(file.MimeType, recipes[recipeName].AcceptedMimeTypes)
        THEN /\ Len(OwnUpdates) = 1
             /\ OwnUpdates[1].Done
             /\ OwnUpdates[1].Error # NilError
             /\ hist.pluginCalls = <<>>
        ELSE \A i \in DOMAIN OwnUpdates : OwnUpdates[i].ProcessorName # "MimeTypeCheck"

\* C7 witness: a non-empty mime type rejected against a non-empty list
C7_Witness ==
    /\ pc = "Returned"
    /\ recipeName \in DOMAIN recipes
    /\ file.MimeType = <<"p">>
    /\ recipes[recipeName].AcceptedMimeTypes = << <<"i", "m">> >>
    /\ Len(OwnUpdates) = 1
    /\ OwnUpdates[1].ProcessorName = "MimeTypeCheck"

\* ProcessFile's only status is the size rejection
RejectedForSize ==
    /\ Len(OwnUpdates) = 1
    /\ OwnUpdates[1].ProcessorName = "FileSizeCheck"
    /\ OwnUpdates[1].Done
    /\ OwnUpdates[1].Error.fmt = "invalid file size: %d bytes"
    /\ hist.pluginCalls = <<>>

\* C8: for a loaded recipe and a file that passed the mime check, when
\* ProcessFile has returned: the file was rejected with one terminal
\* invalid-file-size status and no plugin call exactly if size < minFileSize
\* or size > maxFileSize (a size equal to a bound is accepted).
C8_SizeRejectedIffOutOfBounds ==
    (/\ pc = "Returned"
     /\ recipeName \in DOMAIN recipes
     /\ PrefixMatchesAccepted(file.MimeType, recipes[recipeName].AcceptedMimeTypes)) =>
        (RejectedForSize <=>
            (\/ file.FileSize < recipes[recipeName].MinFileSize
             \/ file.FileSize > recipes[recipeName].MaxFileSize))

\* C8 witness: a file one byte below the minimum was rejected
C8_Witness ==
    /\ pc = "Returned"
    /\ recipeName \in DOMAIN recipes
    /\ PrefixMatchesAccepted(file.MimeType, recipes[recipeName].AcceptedMimeTypes)
    /\ file.FileSize + 1 = recipes[recipeName].MinFileSize
    /\ RejectedForSize

\* C9: when ProcessFile has returned for a recipe name that is not loaded, it
\* appended exactly one status, done and carrying the recipe-not-found error
\* for that name, made no mime or size check, invoked no plugin, persisted
\* nothing, and closed the channel.
C9_RecipeNotFound ==
    (pc = "Returned" /\ recipeName \notin DOMAIN recipes) =>
        /\ Len(OwnUpdates) = 1
        /\ OwnUpdates[1].Done
        /\ OwnUpdates[1].Error = Errorf("recipe not found: %s", recipeName)
        /\ ~hist.mimeChecked
        /\ ~hist.sizeChecked
        /\ hist.pluginCalls = <<>>
        /\ storage = <<>>
        /\ statusCh.closed = 1

\* C9 witness: a run for the unknown recipe name has returned
C9_Witness ==
    /\ pc = "Returned"
    /\ recipeName = "q"
    /\ Len(OwnUpdates) = 1
    /\ statusCh.closed = 1

\* the phases of ProcessFile in their order
PhaseRank(p) ==
    CASE p = "RecipeLookup" -> 1
      [] p = "MimeValidate" -> 2
      [] p = "SizeValidate" -> 3
      [] p \in {"StepExecution", "StepResult"} -> 4
      [] p = "OutputExpansion" -> 5
      [] p \in {"Terminal", "Close", "Returned"} -> 6
      [] OTHER -> 0

\* C10: ProcessFile never goes back to an earlier phase; a plugin has run
\* only after both validations were made and passed; an output has been
\* persisted only after the step loop has ended; and a file that fails both
\* checks is reported by the mime check.
C10_LinearPhases ==
    /\ [][PhaseRank(pc') >= PhaseRank(pc)]_vars
    /\ [](hist.pluginCalls # <<>> =>
            /\ hist.mimeChecked /\ hist.sizeChecked
            /\ PrefixMatchesAccepted(file.MimeType, recipe.AcceptedMimeTypes)
            /\ file.FileSize >= recipe.MinFileSize
            /\ file.FileSize <= recipe.MaxFileSize)
    /\ [](storage # <<>> =>
            /\ stepIdx > Len(recipe.ProcessingSteps)
            /\ PhaseRank(pc) >= 5)
    /\ []((/\ pc = "Returned"
           /\ recipeName \in DOMAIN recipes
           /\ ~PrefixMatchesAccepted(file.MimeType, recipe.AcceptedMimeTypes)
           /\ (file.FileSize < recipe.MinFileSize \/ file.FileSize > recipe.MaxFileSize)) =>
            OwnUpdates[1].ProcessorName = "MimeTypeCheck")

\* C10 witness: a run went through every phase: both validations, a plugin
\* call, two outputs persisted, then the return
C10_Witness ==
    /\ pc = "Returned"
    /\ hist.mimeChecked /\ hist.sizeChecked
    /\ Len(hist.pluginCalls) = 1
    /\ Len(storage) = 2
    /\ ProcessingUpdates[Len(ProcessingUpdates)].Error = NilError


\* the last status of the log
LastUpdate == ProcessingUpdates[Len(ProcessingUpdates)]

\* ProcessFile has returned after appending the success status
ReturnedWithSuccess ==
    /\ pc = "Returned"
    /\ LastUpdate.ProcessorName = "FileProcessing"

\* C11: the plugins are invoked in the order of processingSteps, each on the
\* file set the previous call returned (the first on the single input file);
\* every step with a non-empty name that the loop has passed was invoked,
\* a step with an empty name never, and such a step leaves no status (no
\* status carries the empty name; a successful run's log holds only the
\* plugins' own statuses, one status for each call, and the final one).
C11_StepsInOrderOnPreviousOutput ==
    /\ \A k \in DOMAIN hist.calls :
          /\ hist.calls[k].plugin = recipe.ProcessingSteps[hist.calls[k].step]
          /\ hist.calls[k].plugin # ""
    /\ \A k \in 1..(Len(hist.calls) - 1) :
          /\ hist.calls[k].step < hist.calls[k + 1].step
          /\ hist.calls[k + 1].input = hist.calls[k].output
    /\ hist.calls # <<>> => hist.calls[1].input = <<"in">>
    /\ \A i \in DOMAIN recipe.ProcessingSteps :
          (i < stepIdx /\ recipe.ProcessingSteps[i] # "") =>
              \E k \in DOMAIN hist.calls : hist.calls[k].step = i
    /\ \A i \in DOMAIN ProcessingUpdates : ProcessingUpdates[i].ProcessorName # ""
    /\ ReturnedWithSuccess =>
          Len(OwnUpdates) =
              Len(hist.calls)
              + Cardinality({k \in DOMAIN hist.calls : hist.calls[k].status}) + 1

\* C11 witness: a run of two steps whose first step is skipped and whose
\* second ran on the input file, and that ended with success
C11_Witness ==
    /\ ReturnedWithSuccess
    /\ recipe.ProcessingSteps = <<"", "p">>
    /\ Len(hist.calls) = 1
    /\ hist.calls[1].step = 2
    /\ hist.calls[1].input = <<"in">>

\* C12: a call of a plugin that returned an error is the last call (no later
\* step, no second call of the same step); when ProcessFile has returned
\* after it, the last status is done and carries that error, it is the only
\* done status and the only one with an error that ProcessFile's run
\* appended, and no output was persisted.
C12_PluginErrorIsFatal ==
    /\ \A k \in DOMAIN hist.calls :
          /\ hist.calls[k].err # NilError => k = Len(hist.calls)
          /\ \A j \in 1..(k - 1) : hist.calls[j].step # hist.calls[k].step
    /\ (/\ pc = "Returned"
        /\ hist.calls # <<>>
        /\ hist.calls[Len(hist.calls)].err # NilError) =>
          /\ LastUpdate.Done
          /\ LastUpdate.Error = hist.calls[Len(hist.calls)].err
          /\ LastUpdate.ProcessorName = hist.calls[Len(hist.calls)].plugin
          /\ {i \in DOMAIN OwnUpdates : OwnUpdates[i].Done} = {Len(OwnUpdates)}
          /\ {i \in DOMAIN OwnUpdates : OwnUpdates[i].Error # NilError} = {Len(OwnUpdates)}
          /\ storage = <<>>
          /\ outputFiles = <<>>
          /\ stepIdx = hist.calls[Len(hist.calls)].step

\* C12 witness: the second of two steps failed and ProcessFile has returned
C12_Witness ==
    /\ pc = "Returned"
    /\ Len(hist.calls) = 2
    /\ hist.calls[2].err = PluginError
    /\ LastUpdate.Error = PluginError

\* the run of the scenario [A, B]: two calls, A returned its input unchanged,
\* B returned an error, and ProcessFile has returned
IdentityThenError ==
    /\ pc = "Returned"
    /\ Len(recipe.ProcessingSteps) = 2
    /\ Len(hist.calls) = 2
    /\ hist.calls[1].err = NilError
    /\ hist.calls[1].output = hist.calls[1].input
    /\ ~hist.calls[1].mutate
    /\ hist.calls[2].err # NilError

\* the entries appended during the k-th call and up to the next call
EntriesOfCall(k) ==
    SubSeq(ProcessingUpdates, hist.calls[k].at + 1,
           IF k < Len(hist.calls) THEN hist.calls[k + 1].at
           ELSE Len(ProcessingUpdates))

\* C13 as stated: in the scenario [A, B] the log holds exactly 2 entries
\* from A, both not done, then exactly 1 entry from B, done, and nothing was
\* persisted.
C13_TwoFromAOneFromB ==
    IdentityThenError =>
        /\ Len(EntriesOfCall(1)) = 2
        /\ \A i \in DOMAIN EntriesOfCall(1) : ~EntriesOfCall(1)[i].Done
        /\ Len(EntriesOfCall(2)) = 1
        /\ EntriesOfCall(2)[1].Done
        /\ storage = <<>>

\* what a plugin that appended a status of its own left in the log
OwnStatusOf(call) ==
    IF call.status
    THEN <<ProcessingStatus(call.plugin, 0, NilError, FALSE, <<>>)>>
    ELSE <<>>

\* C13 amended: in the scenario [A, B] the log of the run is A's own status
\* (if A appended one), the engine's step-completed status for A, B's own
\* status (if B appended one), all not done, then one done status carrying
\* B's error; nothing was persisted.
C13_LogOfIdentityThenError ==
    IdentityThenError =>
        /\ EntriesOfCall(1) =
              OwnStatusOf(hist.calls[1])
              \o <<ProcessingStatus(hist.calls[1].plugin,
                                    StepPercentage(hist.calls[1].output,
                                                   recipe.ProcessingSteps),
                                    NilError, FALSE, <<>>)>>
        /\ EntriesOfCall(2) =
              OwnStatusOf(hist.calls[2])
              \o <<ProcessingStatus(hist.calls[2].plugin, 0, hist.calls[2].err,
                                    TRUE, <<>>)>>
        /\ OwnUpdates = EntriesOfCall(1) \o EntriesOfCall(2)
        /\ storage = <<>>
        /\ outputFiles = <<>>

\* C13 witness: the scenario with a status from each plugin: four entries
C13_Witness ==
    /\ IdentityThenError
    /\ hist.calls[1].status
    /\ hist.calls[2].status
    /\ Len(OwnUpdates) = 4


\* the (output format, target name) pairs of a recipe, in declaration order
RECURSIVE OutputTargets(_)
OutputTargets(formats) ==
    IF formats = <<>> THEN <<>>
    ELSE [j \in DOMAIN Head(formats).TargetFileNames |->
             [StorageType |-> Head(formats).StorageType,
              name |-> Head(formats).TargetFileNames[j]]]
         \o OutputTargets(Tail(formats))

\* C14: when ProcessFile has returned with success, the last status is done,
\* at 100 percent and without error, and its resultingFiles has one entry for
\* each (output format, target name) pair, in declaration order, giving the
\* name, the local path, the URL, the size and the mime type of the file
\* persisted for that pair.
C14_SuccessStatusListsOutputs ==
    ReturnedWithSuccess =>
        LET targets == OutputTargets(recipe.OutputFormats)
            rf == LastUpdate.ResultingFiles
        IN /\ LastUpdate.Done
           /\ LastUpdate.Percentage = 100
           /\ LastUpdate.Error = NilError
           /\ LatestStatus[1] = LastUpdate
           /\ Len(rf) = Len(targets)
           /\ Len(storage) = Len(targets)
           /\ \A k \in DOMAIN rf :
                 /\ rf[k].FileName = targets[k].name
                 /\ rf[k].LocalFilePath = storage[k].path
                 /\ rf[k].URL = outputFiles[k].URL
                 /\ rf[k].FileSize = Len(storage[k].content)
                 /\ rf[k].MimeType = TypeByExtension(targets[k].name)

\* C14 witness: a successful run of a recipe with two output formats and
\* three target names
C14_Witness ==
    /\ ReturnedWithSuccess
    /\ Len(recipe.OutputFormats) = 2
    /\ Len(LastUpdate.ResultingFiles) = 3
    /\ LastUpdate.ResultingFiles[1].FileName = "a.png"

\* C15: when ProcessFile has returned with success, every persisted output
\* holds the content of a file of the final file set (what the last executed
\* plugin returned).
C15_OutputsHoldFinalContent ==
    ReturnedWithSuccess =>
        \A k \in DOMAIN storage :
            \E i \in DOMAIN files : storage[k].content = FileContent(files[i], file)

\* the number of output targets that come before position <<i, j>>
TargetsBefore(formats, idx) ==
    Len(OutputTargets(SubSeq(formats, 1, idx[1] - 1))) + idx[2] - 1

\* ProcessFile has returned from a failure of output expansion
ReturnedFromOutputFailure ==
    /\ pc = "Returned"
    /\ LastUpdate.ProcessorName \in {"OutputFormatCheck", "FileSave"}

\* C18: when ProcessFile has returned from an unsupported storage type or a
\* failed save, the last status is done and carries that error, it is the only
\* done status of the run, no status of the run is the success status or lists
\* resulting files, and no target after the failing one was persisted; and a
\* run that returned with success had only supported storage types.
C18_OutputFailureIsFatal ==
    /\ ReturnedFromOutputFailure =>
          /\ LastUpdate.Done
          /\ LastUpdate.Error =
                 (IF LastUpdate.ProcessorName = "FileSave" THEN SaveError
                  ELSE Errorf("invalid storage type: %s",
                              recipe.OutputFormats[outIdx[1]].StorageType))
          /\ {i \in DOMAIN OwnUpdates : OwnUpdates[i].Done} = {Len(OwnUpdates)}
          /\ \A i \in DOMAIN OwnUpdates :
                /\ OwnUpdates[i].ProcessorName # "FileProcessing"
                /\ OwnUpdates[i].ResultingFiles = <<>>
          /\ Len(storage) = TargetsBefore(recipe.OutputFormats, outIdx)
    /\ ReturnedWithSuccess =>
          \A k \in DOMAIN OutputTargets(recipe.OutputFormats) :
              OutputTargets(recipe.OutputFormats)[k].StorageType
                  \in {"private", "temp", "public"}

\* C18 witness: the second output format was not supported, after the two
\* targets of the first had been persisted
C18_Witness ==
    /\ ReturnedFromOutputFailure
    /\ LastUpdate.ProcessorName = "OutputFormatCheck"
    /\ outIdx = <<2, 1>>
    /\ Len(storage) = 2

\* C20 as stated: a status with resulting files is the last of the log, done
\* and without error.
C20_ResultingFilesOnlyOnFinalSuccess ==
    \A i \in DOMAIN ProcessingUpdates :
        ProcessingUpdates[i].ResultingFiles # <<>> =>
            /\ i = Len(ProcessingUpdates)
            /\ ProcessingUpdates[i].Done
            /\ ProcessingUpdates[i].Error = NilError

\* C20 amended: a status with resulting files is either the success status of
\* ProcessFile (the last of the log, done, without error) or the status
\* HandleFileUpload appends after a successful copy (the last one before
\* ProcessFile's run, without error, listing the one uploaded file).
C20_ResultingFilesOnSuccessStatuses ==
    \A i \in DOMAIN ProcessingUpdates :
        ProcessingUpdates[i].ResultingFiles # <<>> =>
            \/ /\ ProcessingUpdates[i].ProcessorName = "FileProcessing"
               /\ i = Len(ProcessingUpdates)
               /\ ProcessingUpdates[i].Done
               /\ ProcessingUpdates[i].Error = NilError
            \/ /\ ProcessingUpdates[i].ProcessorName = "FileUpload"
               /\ upload # <<>>
               /\ i = (IF Invoked THEN hist.startLen ELSE Len(ProcessingUpdates))
               /\ ProcessingUpdates[i].Error = NilError
               /\ Len(ProcessingUpdates[i].ResultingFiles) = 1

\* C20 witness: a log with the upload's status and the final success status,
\* both listing files, and statuses without files between them
C20_Witness ==
    /\ ReturnedWithSuccess
    /\ upload # <<>>
    /\ LastUpdate.ResultingFiles # <<>>
    /\ ProcessingUpdates[hist.startLen].ResultingFiles # <<>>
    /\ Len(ProcessingUpdates) > hist.startLen + 1


\* C19: an output file produced by output expansion has a non-empty URL
\* exactly if the storage type of its output format is public, and the
\* resulting-file list of the success status gives the same URLs.
C19_UrlIffPublic ==
    /\ \A k \in DOMAIN outputFiles :
          (outputFiles[k].URL # <<>>) <=>
              (OutputTargets(recipe.OutputFormats)[k].StorageType = FileStorageTypePublic)
    /\ ReturnedWithSuccess =>
          \A k \in DOMAIN LastUpdate.ResultingFiles :
              (LastUpdate.ResultingFiles[k].URL # <<>>) <=>
                  (OutputTargets(recipe.OutputFormats)[k].StorageType
                      = FileStorageTypePublic)


\* C16: no read of a registry by ProcessFile is made while a registration is
\* writing the registry (reads hold the read lock, writes the write lock).
C16_NoRegistryReadDuringWrite ==
    ~hist.raced

\* the content the run last saved at a path
LastSaved(path) ==
    LET ks == {k \in DOMAIN storage : storage[k].path = path}
    IN storage[CHOOSE k \in ks : \A m \in ks : m <= k].content

\* C17: when a run has returned with success next to a second run, the
\* content at each of its resulting paths is the content the run saved
\* there (what the run leaves there when it is executed alone).
C17_ConcurrentRunsDoNotInterfere ==
    ReturnedWithSuccess =>
        \A k \in DOMAIN LastUpdate.ResultingFiles :
            disk[LastUpdate.ResultingFiles[k].LocalFilePath]
                = LastSaved(LastUpdate.ResultingFiles[k].LocalFilePath)


\* C21: every status of the log has a percentage from 0 to 100.
C21_PercentageInRange ==
    \A i \in DOMAIN ProcessingUpdates :
        /\ ProcessingUpdates[i].Percentage >= 0
        /\ ProcessingUpdates[i].Percentage <= 100

\* the index in the log of the engine's step-completed status of the k-th
\* call: it follows the plugin's own status, if the plugin appended one
StepStatusIndex(k) ==
    hist.calls[k].at + (IF hist.calls[k].status THEN 1 ELSE 0) + 1

\* the calls whose step-completed status is in the log
CompletedCalls ==
    {k \in DOMAIN hist.calls :
        /\ hist.calls[k].err = NilError
        /\ StepStatusIndex(k) <= Len(ProcessingUpdates)
        /\ (k = Len(hist.calls) => pc # "StepResult")}

\* C22: the percentage of the status appended after a step does not depend
\* on how many files the plugin returned (it is the percentage the step has
\* when one file is returned), and over the successive steps of a run it
\* never decreases.
C22_StepPercentageByStepsOnly ==
    /\ \A k \in CompletedCalls :
          ProcessingUpdates[StepStatusIndex(k)].Percentage
              = StepPercentage(<<"in">>, recipe.ProcessingSteps)
    /\ \A j, k \in CompletedCalls :
          j < k =>
              ProcessingUpdates[StepStatusIndex(j)].Percentage
                  <= ProcessingUpdates[StepStatusIndex(k)].Percentage

\* C23: every Read made once the total size is known, the completing reads
\* included, appends a status with percentage
\* min(100, floor(100 * transferred / size)) and forwards the FileProcess.
C23_EveryReadReports ==
    [][( /\ pc = "Copy"
         /\ ~sending
         /\ (pc' # pc \/ progressReader' # progressReader \/ sending')
         /\ progressReader'.Size > 0 ) =>
          /\ Len(ProcessingUpdates') = Len(ProcessingUpdates) + 1
          /\ LastUpdate'.ProcessorName = "FileUpload"
          /\ LastUpdate'.Percentage =
                 (IF (100 * progressReader'.Uploaded) \div progressReader'.Size > 100
                  THEN 100
                  ELSE (100 * progressReader'.Uploaded) \div progressReader'.Size)
          /\ sending']_vars

(***************************************************************************)
(* The FileProcess log on its own: the operations a holder of the          *)
(* *FileProcess has on the log and on LatestStatus.                        *)
(***************************************************************************)
MaxLogLen == 3

\* fp.AddProcessingUpdate(update)
LogAdd ==
    /\ Len(ProcessingUpdates) < MaxLogLen
    /\ \E pct \in {0, 50}, done \in BOOLEAN :
          AddProcessingUpdate(ProcessingStatus("p", pct, NilError, done, <<>>))
    /\ UNCHANGED <<envVars, disk, recipes, processingPlugins, recipeName, file,
                   upload, statusCh, pc, sending, recipe, files, stepIdx, result,
                   outIdx, outputFiles, progressReader, storage, cpc, seen, hist>>

\* fp.LatestStatus.Done = true, the statement ProcessFile ends with: the
\* write goes to the value LatestStatus points to, the copy that
\* AddProcessingUpdate took the address of
LogSetDoneThroughLatest ==
    /\ LatestStatus # <<>>
    /\ LatestStatus' = SetLatestDone(LatestStatus)
    /\ UNCHANGED <<envVars, disk, recipes, processingPlugins, recipeName, file,
                   upload, statusCh, pc, sending, recipe, files, stepIdx, result,
                   outIdx, outputFiles, ProcessingUpdates, progressReader,
                   storage, cpc, seen, hist>>

\* fp.ProcessingUpdates[len(fp.ProcessingUpdates)-1].Done = true: a write to
\* the element of the slice, which LatestStatus does not point to
LogSetDoneOnLast ==
    /\ ProcessingUpdates # <<>>
    /\ ProcessingUpdates' =
           [ProcessingUpdates EXCEPT ![Len(ProcessingUpdates)].Done = TRUE]
    /\ UNCHANGED <<envVars, disk, recipes, processingPlugins, recipeName, file,
                   upload, statusCh, pc, sending, recipe, files, stepIdx, result,
                   outIdx, outputFiles, LatestStatus, progressReader,
                   storage, cpc, seen, hist>>

LogSpec ==
    /\ InitFrom({BaseScenario})
    /\ [][LogAdd \/ LogSetDoneThroughLatest \/ LogSetDoneOnLast]_vars

\* C24: LatestStatus is the last entry of the log itself: whatever is
\* written through LatestStatus or to the last element, the two show the
\* same status.
C24_LatestStatusIsLastEntry ==
    LatestStatus # <<>> =>
        /\ ProcessingUpdates # <<>>
        /\ LatestStatus[1] = LastUpdate

\* C25: the log of the FileProcess only grows at its end: no step makes it
\* shorter or changes an entry that was appended before.
C25_LogOnlyGrows ==
    [][/\ Len(ProcessingUpdates') >= Len(ProcessingUpdates)
       /\ SubSeq(ProcessingUpdates', 1, Len(ProcessingUpdates)) = ProcessingUpdates]_vars

\* a successful run behind an upload: upload statuses, a plugin's status,
\* step and final statuses are in the log and `done` was set on LatestStatus
C25_Witness ==
    /\ ReturnedWithSuccess
    /\ upload # <<>>
    /\ Len(ProcessingUpdates) >= 4
    /\ \E k \in DOMAIN hist.calls : hist.calls[k].status

(***************************************************************************)
(* RunProcessingStep.                                                      *)
(***************************************************************************)
\* C26: RunProcessingStep looks up the named plugin only and calls it once
\* on the file set of the given file; no step of it looks up a recipe,
\* validates mime type or size, touches the status channel or the caller's
\* FileProcess; for a name that is not registered, a plugin error or an
\* empty result it returns an error and no file.
C26_SingleStepOnly ==
    /\ [](
      /\ Len(single.lookups) <= 1
      /\ \A i \in DOMAIN single.lookups : single.lookups[i].name = single.pluginName
      /\ Len(single.invocations) <= 1
      /\ \A i \in DOMAIN single.invocations :
            single.invocations[i] = [plugin |-> single.pluginName,
                                     input |-> <<single.file>>]
      /\ single.pc = "Returned" =>
            /\ Len(single.lookups) = 1
            /\ IF single.pluginName \in single.lookups[1].registry
               THEN Len(single.invocations) = 1
               ELSE Len(single.invocations) = 0
            /\ ( \/ single.pluginName \notin single.lookups[1].registry
                 \/ single.outcome[1].err # NilError
                 \/ single.outcome[1].files = <<>> )
               => (single.ret.err # NilError /\ single.ret.file = <<>>)
        )
    /\ [][single' # single =>
             UNCHANGED <<statusCh, sending, ProcessingUpdates, LatestStatus,
                         recipe, hist, seen>>]_vars

\* a call that returned a file, one that named a missing plugin: the call
\* has a log of its own and the caller's log is as before
C26_Witness ==
    /\ single.pc = "Returned"
    /\ single.ret.err = NilError
    /\ Len(single.invocations) = 1
    /\ Len(single.fileProcess.ProcessingUpdates) = 3
    /\ ProcessingUpdates = <<>>
    /\ ~hist.mimeChecked

\* C27: a call of RunProcessingStep that succeeds has moved the resulting
\* file exactly when a target storage type was named and the path computed
\* for it differs from the file's local path; otherwise the local path and
\* the file system are as they were.
C27_RelocatesIffTargetDiffers ==
    (single.pc = "Returned" /\ single.ret.err = NilError) =>
        LET resultFile == single.processedFiles[1]
            localPath == LocalPathFor(single.targetStorageType,
                                      resultFile.FileName)
        IN /\ single.renamed <=>
                  (single.targetStorageType # "" /\ localPath # resultFile.LocalFilePath)
           /\ IF single.renamed
              THEN /\ single.ret.file.LocalFilePath = localPath
                   /\ localPath \in DOMAIN disk
                   /\ resultFile.LocalFilePath \notin DOMAIN disk
              ELSE /\ single.ret.file.LocalFilePath = resultFile.LocalFilePath
                   /\ \A q \in DOMAIN disk : q = single.file.LocalFilePath

\* a file of the temporary directory was moved to the private one
C27_Witness ==
    /\ single.pc = "Returned"
    /\ single.ret.err = NilError
    /\ single.renamed
    /\ single.targetStorageType = FileStorageTypePrivate
    /\ single.ret.file.LocalFilePath = GetPrivateLocalFilePath("in.txt")

\* C28: a scan that flags the file returns it with no error and a note in
\* its ProcessingErrors; the step completes like any other (its status has
\* no error and is not done), no failure status of the scan is in the log,
\* and the note stays on the file.
C28_FlaggedFileGoesOn ==
    \A k \in {c \in DOMAIN hist.calls : hist.calls[c].note} :
        /\ hist.calls[k].plugin = ScanPluginName
        /\ hist.calls[k].err = NilError
        /\ hist.calls[k].output = hist.calls[k].input
        /\ \E i \in DOMAIN file.ProcessingErrors : file.ProcessingErrors[i] = VirusNote
        /\ k \in CompletedCalls =>
              /\ ProcessingUpdates[StepStatusIndex(k)].Error = NilError
              /\ ~ProcessingUpdates[StepStatusIndex(k)].Done
        /\ \A i \in DOMAIN ProcessingUpdates :
              ProcessingUpdates[i].ProcessorName = ScanPluginName
                  => ProcessingUpdates[i].Error = NilError
        /\ pc \notin {"StepResult", "StepExecution"} => stepIdx > hist.calls[k].step

\* the file was flagged, the following step ran, the run ended with the
\* success status and the note is on the file
C28_Witness ==
    /\ ReturnedWithSuccess
    /\ LastUpdate.Error = NilError
    /\ Len(hist.calls) = 2
    /\ hist.calls[1].note
    /\ file.ProcessingErrors = <<VirusNote>>
    /\ Len(storage) = 1

\* the calls whose plugin returned its input unchanged: the same file
\* objects in the same order, content and mime type as before the call
IdentityCalls ==
    {k \in DOMAIN hist.calls :
        /\ hist.calls[k].err = NilError
        /\ hist.calls[k].output = hist.calls[k].input
        /\ hist.calls[k].fileAfter.Content = hist.calls[k].fileAt.Content
        /\ hist.calls[k].fileAfter.MimeType = hist.calls[k].fileAt.MimeType}

\* C29: after a step whose plugin returned its input unchanged the file set
\* is what it was before the step: the next plugin gets the same files with
\* the same content and mime type, and so does output expansion; between
\* any two steps the engine changes no file.
C29_IdentityStepKeepsFileSet ==
    /\ \A k \in IdentityCalls :
          IF k < Len(hist.calls)
          THEN /\ hist.calls[k + 1].input = hist.calls[k].input
               /\ hist.calls[k + 1].fileAt.Content = hist.calls[k].fileAt.Content
               /\ hist.calls[k + 1].fileAt.MimeType = hist.calls[k].fileAt.MimeType
          ELSE /\ pc # "StepResult" => files = hist.calls[k].input
               /\ file.Content = hist.calls[k].fileAt.Content
               /\ file.MimeType = hist.calls[k].fileAt.MimeType
    /\ \A k \in DOMAIN hist.calls :
          IF k < Len(hist.calls)
          THEN hist.calls[k + 1].fileAt = hist.calls[k].fileAfter
          ELSE file = hist.calls[k].fileAfter

\* the first of two plugins returned its input unchanged, the second was
\* called, and the run went through output expansion
C29_Witness ==
    /\ ReturnedWithSuccess
    /\ Len(hist.calls) = 2
    /\ 1 \in IdentityCalls
    /\ hist.calls[2].input = <<"in">>
    /\ hist.calls[2].fileAt.Content = <<"b">>

(***************************************************************************)
(* File name templating.                                                   *)
(***************************************************************************)
\* the name a template stands for: each token replaced by the value of its
\* key, or by nothing if the key is absent, the other text as it is
RECURSIVE ExpectedName(_, _)
ExpectedName(pieces, md) ==
    IF pieces = <<>> THEN <<>>
    ELSE (IF Head(pieces).token
          THEN MetaDataValue(md, Head(pieces).text)
          ELSE Head(pieces).text) \o ExpectedName(Tail(pieces), md)

\* C30: the resolved name is the template with every {metadata.<key>}
\* token replaced by the value of the key (by nothing for an absent key)
\* and all other text unchanged; in output expansion a resolved name
\* without an extension gets the extension of the original file.
C30_TemplateResolved ==
    /\ naming.pc \in {"Extension", "Named"} =>
          naming.resolved = ExpectedName(naming.pieces, naming.MetaData)
    /\ (naming.pc = "Named" /\ Ext(naming.resolved) = <<>>) =>
          naming.targetFilePath = naming.resolved \o Ext(naming.FileName)


----------------------------------------------------------------------------
\* C31: GetPublicUrlForFile maps a local path under the public base path
\* (the base path itself, or the base path, a slash and a rest) to the base
\* URL followed by that rest, without an error; for a path that is not
\* under the public base path it returns ErrLocalFileNotFound and no URL.
C31_UrlOnlyUnderPublicBase ==
    urlCall.pc = "done" =>
        LET path == urlCall.localFilePath
            under == \/ path = publicLocalBasePath
                     \/ HasPrefix(path, publicLocalBasePath \o <<"/">>)
        IN  IF under
            THEN /\ urlCall.err = NilError
                 /\ urlCall.pubUrl =
                      baseUrl \o SubSeq(path, Len(publicLocalBasePath) + 2, Len(path))
            ELSE /\ urlCall.err = ErrLocalFileNotFound
                 /\ urlCall.pubUrl = <<>>

\* C33: when ProcessFile has returned after a failure of the recipe lookup,
\* the mime validation, the size validation or the plugin resolution, the
\* error of the terminal status is the declared error value of that kind
\* (ErrRecipeNotFound, ErrInvalidMimeType, ErrInvalidFileSize,
\* ErrProcessingPluginNotFound).
C33_TerminalErrorIsDeclaredValue ==
    (pc = "Returned" /\ ProcessingUpdates # <<>>
       /\ LastUpdate.Error # NilError) =>
        /\ LastUpdate.ProcessorName = "RecipeCheck" =>
               LastUpdate.Error = ErrRecipeNotFound
        /\ LastUpdate.ProcessorName = "MimeTypeCheck" =>
               LastUpdate.Error = ErrInvalidMimeType
        /\ LastUpdate.ProcessorName = "FileSizeCheck" =>
               LastUpdate.Error = ErrInvalidFileSize
        /\ LastUpdate.ProcessorName \in PluginNames \ processingPlugins =>
               LastUpdate.Error = ErrProcessingPluginNotFound

\* C34: after every AddProcessingUpdate and at every send of the
\* FileProcess (by ProcessFile, HandleFileUpload or ProgressReader.Read),
\* LatestStatus is set exactly when the log is not empty, and then its field
\* values are those of the last element of ProcessingUpdates.
C34_LatestStatusMirrorsLastEntry ==
    /\ (LatestStatus # <<>>) <=> (ProcessingUpdates # <<>>)
    /\ ProcessingUpdates # <<>> =>
          /\ Len(LatestStatus) = 1
          /\ \A field \in DOMAIN LastUpdate : LatestStatus[1][field] = LastUpdate[field]

\* the FileProcess is being sent by ProgressReader.Read, later by
\* HandleFileUpload, and at the end by ProcessFile after it has set Done
\* through LatestStatus
C34_Witness ==
    /\ pc = "Returned"
    /\ Len(ProcessingUpdates) >= 3
    /\ ProcessingUpdates[1].ProcessorName = "FileUpload"
    /\ ~ProcessingUpdates[1].Done
    /\ LastUpdate.ProcessorName = "FileProcessing"
    /\ LatestStatus[1].Done
    /\ Len(hist.sent) = Len(ProcessingUpdates)

\* C38: while the ProgressReader's Size is 0 (the source is not an on-disk
\* file, or has no bytes), no Read appends a status or sends the
\* FileProcess, however many reads and bytes there are; the only status of
\* a successful upload is then the one HandleFileUpload appends and sends
\* after the copy has finished.
C38_UnsizedUploadReportsOnce ==
    (upload # <<>> /\ progressReader.Size = 0) =>
        LET uploadEntries ==
                {i \in DOMAIN ProcessingUpdates :
                    /\ ProcessingUpdates[i].ProcessorName = "FileUpload"
                    /\ ProcessingUpdates[i].Error = NilError}
        IN  /\ pc \in {"Copy", "UploadDone", "CopyFailed"} =>
                  /\ ProcessingUpdates = <<>>
                  /\ hist.sent = <<>>
                  /\ ~sending
            /\ uploadEntries \subseteq {1}
            /\ uploadEntries = {1} =>
                  /\ ProcessingUpdates[1].ResultingFiles # <<>>
                  /\ progressReader.Uploaded = upload[1].total
                  /\ hist.sent # <<>> => hist.sent[1] = 1

\* an upload from a source that is not a file has succeeded after all its
\* bytes were read, and its one status has been sent
C38_Witness ==
    /\ upload # <<>>
    /\ ~upload[1].isFile
    /\ progressReader.Size = 0
    /\ progressReader.Uploaded = MaxUploadSize
    /\ ProcessingUpdates # <<>>
    /\ ProcessingUpdates[1].ProcessorName = "FileUpload"
    /\ ProcessingUpdates[1].ResultingFiles # <<>>
    /\ hist.sent # <<>>

C35_PluginsResolvedStepByStep ==
    (ProcessingUpdates # <<>> /\ Invoked
       /\ LastUpdate.Error.fmt = "processing plugin(%s) not found") =>
        LET steps == recipe.ProcessingSteps
            earlier == SelectSeq(SubSeq(steps, 1, stepIdx - 1),
                                 LAMBDA name : name # "")
            n == Len(hist.calls)
        IN  /\ recipeName \in DOMAIN recipes
            /\ recipes[recipeName] = recipe
            /\ stepIdx \in DOMAIN steps
            /\ steps[stepIdx] \notin processingPlugins
            /\ LastUpdate.ProcessorName = steps[stepIdx]
            /\ \A name \in {earlier[k] : k \in DOMAIN earlier} :
                  name \in processingPlugins
            /\ hist.pluginCalls = earlier
            /\ n = Len(earlier)
            /\ \A k \in 1..n :
                  /\ hist.calls[k].plugin = earlier[k]
                  /\ hist.calls[k].err = NilError
                  /\ StepStatusIndex(k) < Len(ProcessingUpdates)
                  /\ ProcessingUpdates[StepStatusIndex(k)].ProcessorName = earlier[k]
                  /\ ProcessingUpdates[StepStatusIndex(k)].Error = NilError
                  /\ hist.calls[k].status =>
                        ProcessingUpdates[hist.calls[k].at + 1].ProcessorName = earlier[k]
            /\ n > 0 =>
                  /\ file = hist.calls[n].fileAfter
                  /\ files = NextFileSet(hist.calls[n].input, hist.calls[n].output)

\* the second step names an unregistered plugin; the plugin of the first
\* step ran, appended a status of its own and changed the file
C35_Witness ==
    /\ pc = "Returned"
    /\ ProcessingUpdates # <<>>
    /\ LastUpdate.Error.fmt = "processing plugin(%s) not found"
    /\ stepIdx = 2
    /\ Len(hist.calls) = 1
    /\ hist.calls[1].status
    /\ hist.calls[1].fileAfter # hist.calls[1].fileAt
    /\ file = hist.calls[1].fileAfter

\* C32: every status a plugin appends during its Process call is seen by
\* the consumer within that step: once the consumer has read, as latest
\* status of a received message, the engine's status for the completion of
\* the step (or a later one), it has read the plugin's own status as latest
\* status of an earlier message.
C32_PluginStatusSeenWithinStep ==
    \A k \in DOMAIN hist.calls :
        hist.calls[k].status =>
            \A j \in DOMAIN seen :
                seen[j].idx >= StepStatusIndex(k) =>
                    \E i \in 1..(j - 1) : seen[i].idx = hist.calls[k].at + 1

\* C37: for every template and every metadata value, the local path of an
\* output that was persisted lies inside the base path of the storage type
\* of its output format: the elements of the base path, then at least one
\* more.
C37_OutputInsideBasePath ==
    /\ naming.pc = "Saved" =>
          /\ HasPrefix(naming.LocalFilePath, StorageBase(naming.StorageType))
          /\ Len(naming.LocalFilePath) > Len(StorageBase(naming.StorageType))
    /\ \A path \in DOMAIN disk :
          \E t \in {FileStorageTypePrivate, FileStorageTypeTemp, FileStorageTypePublic} :
              HasPrefix(path, StorageBase(t))

=============================================================================
